---- MODULE Spec2Model ----
(***************************************************************************)
(* The traffic-statistics accumulator of scripts/collect-traffic-stats.js  *)
(* (schema v2): one run of main() loads the ledger file, migrates a v1     *)
(* ledger, reconciles each discovered repository's fetched window into its *)
(* per-day history, ages old records into legacyOffset, recomputes the     *)
(* totals and writes the ledger back.                                      *)
(*                                                                         *)
(* Calendar dates ("YYYY-MM-DD" strings in the code, compared with < and   *)
(* localeCompare) are day numbers here; lexicographic order on ISO dates   *)
(* is the order of the day numbers.  JavaScript's undefined / missing      *)
(* property is a field absent from the record's DOMAIN.  The lastUpdated   *)
(* timestamp is the number of the run that wrote it (0 is null).           *)
(*                                                                         *)
(* The module also holds the collector's page-by-page repository listing,  *)
(* the earlier delta-accumulating collector (schema v1) that wrote the     *)
(* ledgers the migration reads, and the portfolio page's script (script.js *)
(* and its historical-data-only variant) that reads the ledger file.       *)
(***************************************************************************)
EXTENDS Integers, Sequences, FiniteSets, TLC

\* ------------------------------------------------------------------ bounds
\* Processes started in one behaviour.
MaxRuns == 2

\* Names on one page of the repository listing.
PerPage == 2

\* Clicks on filter buttons in one visit of the page.
MaxClicks == 2

\* History entries the earlier collector keeps per repository.
HistoryKept == 90

\* ------------------------------------------------------- program constants
SCHEMA_VERSION == 2
HISTORY_RETENTION_DAYS == 365

PORTFOLIO_REPO == "Maneesh-Relanto.github.io"
EXCLUDED_REPOS == {"AWS---Hackathon---KIRO"}

\* Names of tracked repositories (PORTFOLIO_REPO and EXCLUDED_REPOS are not
\* among them), in the order the listing returns them.
ListingOrder == <<"a", "b">>

Entities == {ListingOrder[k] : k \in DOMAIN ListingOrder}

\* The daily counts the upstream source reports.
Counts == 2..3

VARIABLES
    env,        \* the surroundings of the job, fixed for a behaviour:
                \*   repos: the public repositories that exist upstream,
                \*   window: the days the traffic endpoints look back,
                \*   advances: the days that can pass between two runs
    disk,       \* the ledger file: <<>> when absent, <<document>> otherwise
    hd,         \* historicalData, the in-memory document of the current run
    pc,         \* "idle" | "load" | "loop" | "await" | "pause" | "waiting" |
                \* "aggregate"
    REPOS,      \* the discovered repository names, in listing order
    idx,        \* position of the for...of loop in REPOS
    today,      \* the current day number
    cutoff,     \* retentionCutoffStr of the current run
    fetched,    \* this run's upstream responses, by repository
    outcome,    \* this run's per-repository log line: "ok" or "error"
    exitCode,   \* exit code of the last finished process
    runs,       \* completed runs (the clock that stamps lastUpdated)
    replay,     \* TRUE while a run repeats the previous run's inputs
    before,     \* the entry of the repository processed last as it was before
                \* the loop body ran on it: <<entry>>, or <<>> when it had none
    track,      \* per repository: baseline and the latest count fetched per date
    inflight,   \* the requests issued and not yet answered
    arrived,    \* the answers the pending Promise.all has received, in the
                \* order they arrived
    page,       \* page of fetchAllPublicRepos' while loop (0 outside it)
    asked,      \* the listing pages this run requested, with their answers
    totalClonesIncrement,   \* the earlier collector's running sums of what
    totalViewsIncrement,    \* this run added to the repositories' totals
    ui,         \* the portfolio page's script: "unloaded" | "history" | "cards" |
                \* "done"
    cardAt,     \* position of initializeGitHubInsights' for...of loop
    historicalTrafficData,  \* the page's copy of the ledger: <<>> is null
    loader,     \* the cards that hold an .insights-loader element
    rendered,   \* per card, what its .project-insights container shows
    active,     \* the filter buttons that carry the class 'active'
    display,    \* per card, its style.display ("" until a filter sets it)
    clicks,     \* filter clicks so far
    answers     \* per card, what the API answered to fetchRepoInsights

vars == <<env, disk, hd, pc, REPOS, idx, today, cutoff, fetched, outcome, exitCode,
          runs, replay, before, track, inflight, arrived, page, asked,
          totalClonesIncrement, totalViewsIncrement, ui, cardAt,
          historicalTrafficData, loader, rendered, active, display, clicks, answers>>

\* The state of the portfolio page.
pageVars == <<ui, cardAt, historicalTrafficData, loader, rendered, active, display,
              clicks, answers>>

\* ----------------------------------------------------------------- helpers
Has(r, k) == k \in DOMAIN r

\* r[k] || d
Field(r, k, d) == IF k \in DOMAIN r THEN r[k] ELSE d

\* obj[k] = v (adds the property when missing)
Put(r, k, v) == [x \in DOMAIN r \cup {k} |-> IF x = k THEN v ELSE r[x]]

Empty == [x \in {} |-> 0]

Min(S) == CHOOSE x \in S : \A y \in S : x <= y

RECURSIVE SumClones(_)
SumClones(h) ==
    IF h = <<>> THEN 0 ELSE Field(Head(h), "clones", 0) + SumClones(Tail(h))

RECURSIVE SumViews(_)
SumViews(h) ==
    IF h = <<>> THEN 0 ELSE Field(Head(h), "views", 0) + SumViews(Tail(h))

RECURSIVE SumOver(_, _)
SumOver(f, S) ==
    IF S = {} THEN 0
    ELSE LET x == CHOOSE y \in S : TRUE IN f[x] + SumOver(f, S \ {x})

RECURSIVE SumSeq(_)
SumSeq(s) == IF s = <<>> THEN 0 ELSE Head(s) + SumSeq(Tail(s))

\* ---------------------------------------------------------- ledger store
\* loadHistoricalData: the parsed file, or the zero-valued document (which
\* carries no schemaVersion: 0 stands for the missing property, which
\* `!historicalData.schemaVersion` treats like any version below 2).
DefaultData ==
    [schemaVersion |-> 0, lastUpdated |-> 0, totalClones |-> 0, totalViews |-> 0,
     totalPRs |-> 0, totalCommits |-> 0, totalContributions |-> 0,
     repositories |-> Empty]

loadHistoricalData(file) == IF file = <<>> THEN DefaultData ELSE file[1]

\* A save that keeps only the entries of the repositories discovered in
\* this run.
saveDiscoveredOnly(data) ==
    <<[data EXCEPT !.repositories =
          [n \in DOMAIN @ \cap {REPOS[k] : k \in DOMAIN REPOS} |-> @[n]]]>>

saveHistoricalData(data) == <<data>>

\* ------------------------------------------------------ upstream responses
\* A traffic entry's timestamp is "<date>T00:00:00Z": the pair of its date and
\* its time part.
Timestamp(d) == <<d, "T00:00:00Z">>

\* timestamp.split('T')[0]
DateOf(timestamp) == timestamp[1]

\* The days the upstream window covers on day t.
WindowDates(t) == {t - k : k \in 0..(env.window - 1)}

\* A day's count with its unique visitors.
DayCounts == {[count |-> c, uniques |-> c - 1] : c \in Counts}

\* The entries of a traffic body, in ascending date order, for the dates f
\* gives counts for.
RECURSIVE BodyOf(_)
BodyOf(f) ==
    IF DOMAIN f = {} THEN <<>>
    ELSE LET d == Min(DOMAIN f) IN
         <<[timestamp |-> Timestamp(d), count |-> f[d].count,
            uniques |-> f[d].uniques]>>
         \o BodyOf([x \in DOMAIN f \ {d} |-> f[x]])

TrafficBodies(t) ==
    UNION {{BodyOf(f) : f \in [S -> DayCounts]} : S \in (SUBSET WindowDates(t)) \ {{}}}

\* What makeRequest can resolve to for a traffic endpoint: a 200 with a body,
\* or a non-success status (data: null).
TrafficResponses(t) ==
    {[status |-> 403, body |-> <<>>]}
    \cup {[status |-> 200, body |-> b] : b \in TrafficBodies(t)}

\* The pulls listing: a 200 with len items and, when paginated, a Link header
\* whose rel="last" page is lastPage (0: no Link header); or a non-success.
PullFailed == [status |-> 403, len |-> 0, lastPage |-> 0]

PullOk == [status |-> 200, len |-> 3, lastPage |-> 0]

\* The contributors listing: a 200 with each contributor's contributions, or a
\* non-success.
ContributorsFailed == [status |-> 403, body |-> <<>>]

ContributorsOk == [status |-> 200, body |-> <<4, 1>>]

\* The two point-in-time requests: both refused (rate limit, bad credential)
\* or both answered.
PointResponses ==
    {[prs |-> PullFailed, contributors |-> ContributorsFailed],
     [prs |-> PullOk, contributors |-> ContributorsOk]}

\* A network error on any of the four requests rejects Promise.all.
NetError == [net |-> "error"]

Responses(t) ==
    {NetError}
    \cup {[net |-> "ok", clones |-> c, views |-> v, prs |-> p.prs,
            contributors |-> p.contributors] :
            c \in TrafficResponses(t), v \in TrafficResponses(t),
            p \in PointResponses}

\* A 200 whose body JSON.parse rejects: the 'end' listener throws outside the
\* promise, which neither resolves nor rejects.
Unparsable == [net |-> "unparsable"]

\* makeRequest resolves with the parsed body and the headers on a 200, and
\* with data: null, headers: {} on any other status.
Succeeded(res) == res.status = 200

\* The page of the Link header's rel="last" (0: no such header).
LinkLastPage(res) == IF Succeeded(res) THEN res.lastPage ELSE 0

prCount(prsRes) ==
    IF LinkLastPage(prsRes) > 0 THEN LinkLastPage(prsRes) * 100
    ELSE IF Succeeded(prsRes) THEN prsRes.len ELSE 0

commitCount(contributorsRes) ==
    IF Succeeded(contributorsRes) THEN SumSeq(contributorsRes.body) ELSE 0

RECURSIVE ByDay(_)
ByDay(body) ==
    IF body = <<>> THEN <<>>
    ELSE <<[date |-> DateOf(Head(body).timestamp), count |-> Head(body).count,
            uniques |-> Head(body).uniques]>> \o ByDay(Tail(body))

\* A fetch that reports a failed traffic request as a zero count for today.
fetchTrafficDataZeroFills(resp) ==
    [clonesByDay |-> IF Succeeded(resp.clones) THEN ByDay(resp.clones.body)
                     ELSE <<[date |-> today, count |-> 0, uniques |-> 0]>>,
     viewsByDay  |-> IF Succeeded(resp.views) THEN ByDay(resp.views.body)
                     ELSE <<[date |-> today, count |-> 0, uniques |-> 0]>>,
     prs         |-> prCount(resp.prs),
     commits     |-> commitCount(resp.contributors)]

fetchTrafficData(resp) ==
    [clonesByDay |-> IF Succeeded(resp.clones) THEN ByDay(resp.clones.body) ELSE <<>>,
     viewsByDay  |-> IF Succeeded(resp.views) THEN ByDay(resp.views.body) ELSE <<>>,
     prs         |-> prCount(resp.prs),
     commits     |-> commitCount(resp.contributors)]

\* ------------------------------------------------------- schema migration
\* A migration that keeps the stored history.
MigrateRepoKeepsHistory(repo) ==
    Put(Put(Put(repo,
        "legacyOffset", [clones |-> Field(repo, "totalClones", 0),
                         views  |-> Field(repo, "totalViews", 0)]),
        "totalClones", 0),
        "totalViews", 0)

MigrateRepo(repo) ==
    Put(Put(Put(Put(repo,
        "legacyOffset", [clones |-> Field(repo, "totalClones", 0),
                         views  |-> Field(repo, "totalViews", 0)]),
        "history", <<>>),
        "totalClones", 0),
        "totalViews", 0)

\* A migration that does not look at the stored schemaVersion.
NeedsMigrationAlways(h) == TRUE

NeedsMigration(h) == h.schemaVersion < SCHEMA_VERSION

\* A migration that does not stamp the document.
MigrateWithoutStamp(h) ==
    IF NeedsMigration(h)
    THEN [h EXCEPT !.repositories = [n \in DOMAIN @ |-> MigrateRepo(@[n])]]
    ELSE h

\* The migration loop run without the schemaVersion test.
MigrateUnconditionally(h) ==
    [h EXCEPT !.repositories = [n \in DOMAIN @ |-> MigrateRepo(@[n])],
              !.schemaVersion = SCHEMA_VERSION]

Migrate(h) ==
    IF NeedsMigration(h)
    THEN [h EXCEPT !.repositories = [n \in DOMAIN @ |-> MigrateRepo(@[n])],
                   !.schemaVersion = SCHEMA_VERSION]
    ELSE h

\* retentionCutoff: today minus HISTORY_RETENTION_DAYS.
RetentionCutoff(t) == t - HISTORY_RETENTION_DAYS

\* --------------------------------------------------- reconciliation engine
\* A new entry that starts from a non-zero baseline.
NewRepoSeeded ==
    [legacyOffset |-> [clones |-> 1, views |-> 1], totalClones |-> 0,
     totalViews |-> 0, totalPRs |-> 0, totalCommits |-> 0, history |-> <<>>]

NewRepo ==
    [legacyOffset |-> [clones |-> 0, views |-> 0], totalClones |-> 0,
     totalViews |-> 0, totalPRs |-> 0, totalCommits |-> 0, history |-> <<>>]

\* The default written without the `if (!repoData.legacyOffset)` test.
EnsureLegacyOffsetResets(repoData) ==
    Put(repoData, "legacyOffset", [clones |-> 0, views |-> 0])

EnsureLegacyOffset(repoData) ==
    IF Has(repoData, "legacyOffset") THEN repoData
    ELSE Put(repoData, "legacyOffset", [clones |-> 0, views |-> 0])

\* A date map that starts empty, whatever the stored history.
IndexFetchedOnly(history, m) == m

\* historyByDate: the date-keyed map built from history (a later record of
\* the same date replaces an earlier one).
RECURSIVE IndexByDate(_, _)
IndexByDate(history, m) ==
    IF history = <<>> THEN m
    ELSE IndexByDate(Tail(history), Put(m, Head(history).date, Head(history)))

\* An upsert that adds the fetched count to the stored one.
UpsertCloneAdds(m, t) ==
    IF t.date \in DOMAIN m
    THEN [m EXCEPT ![t.date] = Put(Put(@, "clones", @.clones + t.count),
                                   "clonesUniques", t.uniques)]
    ELSE Put(m, t.date, [date |-> t.date, clones |-> t.count,
                         clonesUniques |-> t.uniques, views |-> 0, viewsUniques |-> 0])

UpsertClone(m, t) ==
    IF t.date \in DOMAIN m
    THEN [m EXCEPT ![t.date] = Put(Put(@, "clones", t.count), "clonesUniques", t.uniques)]
    ELSE Put(m, t.date, [date |-> t.date, clones |-> t.count,
                         clonesUniques |-> t.uniques, views |-> 0, viewsUniques |-> 0])

\* A views upsert that rebuilds the record of an existing date.
UpsertViewRebuilds(m, t) ==
    Put(m, t.date, [date |-> t.date, clones |-> 0, clonesUniques |-> 0,
                    views |-> t.count, viewsUniques |-> t.uniques])

UpsertView(m, t) ==
    IF t.date \in DOMAIN m
    THEN [m EXCEPT ![t.date] = Put(Put(@, "views", t.count), "viewsUniques", t.uniques)]
    ELSE Put(m, t.date, [date |-> t.date, clones |-> 0, clonesUniques |-> 0,
                         views |-> t.count, viewsUniques |-> t.uniques])

RECURSIVE UpsertClones(_, _)
UpsertClones(m, byDay) ==
    IF byDay = <<>> THEN m
    ELSE UpsertClones(UpsertClone(m, Head(byDay)), Tail(byDay))

RECURSIVE UpsertViews(_, _)
UpsertViews(m, byDay) ==
    IF byDay = <<>> THEN m
    ELSE UpsertViews(UpsertView(m, Head(byDay)), Tail(byDay))

\* The comparator with its operands exchanged.
RECURSIVE SortDescending(_)
SortDescending(m) ==
    IF DOMAIN m = {} THEN <<>>
    ELSE LET d == Min(DOMAIN m) IN
         SortDescending([x \in DOMAIN m \ {d} |-> m[x]]) \o <<m[d]>>

\* Object.values(historyByDate).sort by date
RECURSIVE SortByDate(_)
SortByDate(m) ==
    IF DOMAIN m = {} THEN <<>>
    ELSE LET d == Min(DOMAIN m) IN
         <<m[d]>> \o SortByDate([x \in DOMAIN m \ {d} |-> m[x]])

\* A retention test that also ages the record dated on the cutoff.
IsAgedInclusive(entry, cut) == entry.date <= cut

IsAged(entry, cut) == entry.date < cut

Aged(allEntries, cut) == SelectSeq(allEntries, LAMBDA e : IsAged(e, cut))

\* A retention step that keeps every record.
RetainAll(allEntries, cut) == allEntries

Retained(allEntries, cut) == SelectSeq(allEntries, LAMBDA e : ~IsAged(e, cut))

\* Aged records dropped without being added to the baseline.
AbsorbNothing(legacyOffset, aged) == legacyOffset

Absorb(legacyOffset, aged) ==
    [clones |-> legacyOffset.clones + SumClones(aged),
     views  |-> legacyOffset.views + SumViews(aged)]

\* A loop body that adds the retained history to the stored totals.
ReconcileAddsToTotals(repoData, data, cut) ==
    LET allEntries ==
            SortByDate(UpsertViews(UpsertClones(IndexByDate(repoData.history, Empty),
                                                data.clonesByDay),
                                   data.viewsByDay))
        legacy == Absorb(repoData.legacyOffset, Aged(allEntries, cut))
        toRetain == Retained(allEntries, cut)
    IN  [repoData EXCEPT !.legacyOffset = legacy,
                         !.history = toRetain,
                         !.totalClones = @ + SumClones(toRetain),
                         !.totalViews = @ + SumViews(toRetain),
                         !.totalPRs = data.prs,
                         !.totalCommits = data.commits]

\* A loop body that adds the fetched PR and commit counts to the stored ones.
ReconcileAddsCounters(repoData, data, cut) ==
    LET allEntries ==
            SortByDate(UpsertViews(UpsertClones(IndexByDate(repoData.history, Empty),
                                                data.clonesByDay),
                                   data.viewsByDay))
        legacy == Absorb(repoData.legacyOffset, Aged(allEntries, cut))
        toRetain == Retained(allEntries, cut)
    IN  [repoData EXCEPT !.legacyOffset = legacy,
                         !.history = toRetain,
                         !.totalClones = legacy.clones + SumClones(toRetain),
                         !.totalViews = legacy.views + SumViews(toRetain),
                         !.totalPRs = @ + data.prs,
                         !.totalCommits = @ + data.commits]

\* Steps 1 to 3 of the loop body on one repository entry.
Reconcile(repoData, data, cut) ==
    LET allEntries ==
            SortByDate(UpsertViews(UpsertClones(IndexByDate(repoData.history, Empty),
                                                data.clonesByDay),
                                   data.viewsByDay))
        legacy == Absorb(repoData.legacyOffset, Aged(allEntries, cut))
        toRetain == Retained(allEntries, cut)
    IN  [repoData EXCEPT !.legacyOffset = legacy,
                         !.history = toRetain,
                         !.totalClones = legacy.clones + SumClones(toRetain),
                         !.totalViews = legacy.views + SumViews(toRetain),
                         !.totalPRs = data.prs,
                         !.totalCommits = data.commits]

\* ------------------------------------------------------- global aggregator
\* Global clone and view totals kept by adding to the stored ones.
AggregateIncrementally(h, stamp) ==
    LET names == DOMAIN h.repositories
        clones == SumOver([n \in names |-> Field(h.repositories[n], "totalClones", 0)], names)
        views == SumOver([n \in names |-> Field(h.repositories[n], "totalViews", 0)], names)
        prs == SumOver([n \in names |-> Field(h.repositories[n], "totalPRs", 0)], names)
        commits == SumOver([n \in names |-> Field(h.repositories[n], "totalCommits", 0)], names)
    IN  [h EXCEPT !.totalClones = @ + clones, !.totalViews = @ + views, !.totalPRs = prs,
                  !.totalCommits = commits,
                  !.totalContributions = commits + (prs * 10),
                  !.lastUpdated = stamp]

Aggregate(h, stamp) ==
    LET names == DOMAIN h.repositories
        clones == SumOver([n \in names |-> Field(h.repositories[n], "totalClones", 0)], names)
        views == SumOver([n \in names |-> Field(h.repositories[n], "totalViews", 0)], names)
        prs == SumOver([n \in names |-> Field(h.repositories[n], "totalPRs", 0)], names)
        commits == SumOver([n \in names |-> Field(h.repositories[n], "totalCommits", 0)], names)
    IN  [h EXCEPT !.totalClones = clones, !.totalViews = views, !.totalPRs = prs,
                  !.totalCommits = commits,
                  !.totalContributions = commits + (prs * 10),
                  !.lastUpdated = stamp]

\* ------------------------------------------------------------ environment
\* What the repository listing can return.
Discoveries ==
    {SelectSeq(ListingOrder, LAMBDA n : n \in S) : S \in SUBSET env.repos}

\* A ledger written by the earlier (v1) collector: no schemaVersion, no
\* legacyOffset, one rolling-window snapshot per run in history.
V1Repo(c, v) ==
    [totalClones |-> c, totalViews |-> v, totalPRs |-> 1, totalCommits |-> 2,
     history |-> <<[date |-> 0 - 1, clones |-> c, views |-> v,
                    prs |-> 1, commits |-> 2]>>]

V1Repos == {V1Repo(0, 0), V1Repo(5, 7)}

V1Ledgers ==
    {[schemaVersion |-> 0, lastUpdated |-> 0,
      totalClones |-> SumOver([n \in DOMAIN r |-> r[n].totalClones], DOMAIN r),
      totalViews |-> SumOver([n \in DOMAIN r |-> r[n].totalViews], DOMAIN r),
      totalPRs |-> SumOver([n \in DOMAIN r |-> r[n].totalPRs], DOMAIN r),
      totalCommits |-> SumOver([n \in DOMAIN r |-> r[n].totalCommits], DOMAIN r),
      totalContributions |-> 0,
      repositories |-> r] :
        r \in UNION {[S -> V1Repos] : S \in (SUBSET Entities) \ {{}}}}

InitialFiles == {<<>>} \cup {<<l>> : l \in V1Ledgers}

\* ------------------------------------------------- history of the fetches
\* track[n] remembers, for repository n, its totals when per-day tracking
\* began and the count of the most recent fetch that contained each date.
NewTrack(c, v) ==
    [base |-> [clones |-> c, views |-> v], clones |-> Empty, views |-> Empty,
     processed |-> FALSE]

RECURSIVE Latest(_, _)
Latest(m, byDay) ==
    IF byDay = <<>> THEN m
    ELSE Latest(Put(m, Head(byDay).date, Head(byDay).count), Tail(byDay))

Tracked(tr, data) ==
    [tr EXCEPT !.clones = Latest(@, data.clonesByDay),
               !.views = Latest(@, data.viewsByDay),
               !.processed = TRUE]

\* ------------------------------------------------------ the portfolio page
\* The project cards of the page, in document order: the card's
\* data-category, the path of its .project-link's href (<<>>: no link),
\* whether it has a .project-footer, whether it carries the class
\* enterprise-repo.
ProjectCards ==
    <<[category |-> "ai", href |-> <<"github.com", "Maneesh-Relanto", "a">>,
       footer |-> TRUE, enterprise |-> FALSE],
      [category |-> "tools", href |-> <<>>, footer |-> TRUE, enterprise |-> FALSE],
      [category |-> "tools", href |-> <<"github.com", "Maneesh-Relanto">>,
       footer |-> TRUE, enterprise |-> FALSE],
      [category |-> "tools", href |-> <<"github.com", "Maneesh-Relanto", "b">>,
       footer |-> TRUE, enterprise |-> FALSE],
      [category |-> "enterprise", href |-> <<"github.com", "Maneesh-Relanto", "c">>,
       footer |-> TRUE, enterprise |-> TRUE]>>

Cards == DOMAIN ProjectCards

\* The data-filter values of the .filter-btn buttons.
FilterButtons == {"all", "ai", "tools"}

\* document.querySelectorAll('.project-card:not(.enterprise-repo)')
InsightCards ==
    SelectSeq([k \in Cards |-> k], LAMBDA k : ~ProjectCards[k].enterprise)

\* card.querySelector('.project-link[href*="github.com"]')
HasGitHubLink(card) == Len(card.href) > 0 /\ card.href[1] = "github.com"

\* url.match(/github\.com\/[^/]+\/([^/]+)/): <<name>>, or <<>> for null.
extractRepoName(href) == IF Len(href) >= 3 THEN <<href[3]>> ELSE <<>>

\* The page before its script has run.
PageUnloaded ==
    /\ ui = "unloaded"
    /\ cardAt = 0
    /\ historicalTrafficData = <<>>
    /\ loader = {}
    /\ rendered = [c \in Cards |-> <<>>]
    /\ active = {"all"}
    /\ display = [c \in Cards |-> ""]
    /\ clicks = <<>>
    /\ answers = Empty

\* ------------------------------------------------------------------ state
Start ==
    /\ hd = DefaultData
    /\ pc = "idle"
    /\ REPOS = <<>>
    /\ idx = 0
    /\ today = 0
    /\ cutoff = 0
    /\ fetched = Empty
    /\ outcome = Empty
    /\ exitCode = 0
    /\ runs = 0
    /\ replay = FALSE
    /\ before = <<>>
    /\ track = Empty
    /\ inflight = {}
    /\ arrived = <<>>
    /\ page = 0
    /\ asked = <<>>
    /\ totalClonesIncrement = 0
    /\ totalViewsIncrement = 0
    /\ PageUnloaded

Init ==
    /\ env = [repos |-> {"a"}, window |-> 1,
              advances |-> {0, 1, HISTORY_RETENTION_DAYS, HISTORY_RETENTION_DAYS + 1}]
    /\ disk \in InitialFiles
    /\ Start

\* The day a process can start on: the first one on day 0, a later one
\* env.advances days after the previous one.
DaysOfNextRun == IF runs = 0 THEN {today} ELSE {today + adv : adv \in env.advances}

\* main, lines 186-189: no credential.
StartNoToken ==
    /\ pc = "idle"
    /\ runs < MaxRuns
    /\ today' \in DaysOfNextRun
    /\ exitCode' = 1
    /\ runs' = runs + 1
    /\ replay' = FALSE
    /\ UNCHANGED <<pageVars, totalClonesIncrement, totalViewsIncrement, page, asked, inflight, arrived, env, disk, hd, pc, REPOS, idx, cutoff, fetched, outcome, before, track>>

\* An empty listing reported with exit code 0.
StartNoReposExitsZero ==
    /\ pc = "idle"
    /\ runs < MaxRuns
    /\ today' \in DaysOfNextRun
    /\ REPOS' = <<>>
    /\ exitCode' = 0
    /\ runs' = runs + 1
    /\ replay' = FALSE
    /\ UNCHANGED <<pageVars, totalClonesIncrement, totalViewsIncrement, page, asked, inflight, arrived, env, disk, hd, pc, idx, cutoff, fetched, outcome, before, track>>

\* main, lines 192-197: the listing is empty.
StartNoRepos ==
    /\ pc = "idle"
    /\ runs < MaxRuns
    /\ today' \in DaysOfNextRun
    /\ REPOS' = <<>>
    /\ exitCode' = 1
    /\ runs' = runs + 1
    /\ replay' = FALSE
    /\ UNCHANGED <<pageVars, totalClonesIncrement, totalViewsIncrement, page, asked, inflight, arrived, env, disk, hd, pc, idx, cutoff, fetched, outcome, before, track>>

\* main, lines 186-197: the credential is set and the listing is not empty.
StartRun ==
    /\ pc = "idle"
    /\ runs < MaxRuns
    /\ today' \in DaysOfNextRun
    /\ \E found \in Discoveries \ {<<>>} : REPOS' = found
    /\ pc' = "load"
    /\ fetched' = Empty
    /\ outcome' = Empty
    /\ replay' = FALSE
    /\ UNCHANGED <<pageVars, totalClonesIncrement, totalViewsIncrement, page, asked, inflight, arrived, env, disk, hd, idx, cutoff, exitCode, runs, before, track>>

\* The same run again: the same day, the same listing, and (in
\* ProcessRepository) the same response for every repository.
StartRepeat ==
    /\ pc = "idle"
    /\ runs < MaxRuns
    /\ runs > 0
    /\ exitCode = 0
    /\ pc' = "load"
    /\ outcome' = Empty
    /\ replay' = TRUE
    /\ UNCHANGED <<pageVars, totalClonesIncrement, totalViewsIncrement, page, asked, inflight, arrived, env, disk, hd, REPOS, idx, today, cutoff, fetched, exitCode, runs, before, track>>

\* main, lines 199-242: load, migrate, compute the retention cutoff.
LoadAndMigrate ==
    /\ pc = "load"
    /\ LET loaded == loadHistoricalData(disk) IN
        /\ hd' = Migrate(loaded)
        /\ track' = IF NeedsMigration(loaded)
                    THEN [n \in DOMAIN loaded.repositories |->
                            NewTrack(Field(loaded.repositories[n], "totalClones", 0),
                                     Field(loaded.repositories[n], "totalViews", 0))]
                    ELSE track
    /\ cutoff' = RetentionCutoff(today)
    /\ idx' = 1
    /\ pc' = "loop"
    /\ UNCHANGED <<pageVars, totalClonesIncrement, totalViewsIncrement, page, asked, inflight, arrived, env, disk, REPOS, today, fetched, outcome, exitCode, runs, replay, before>>

\* The responses the current repository's fetch can get.
Upstream(repo) == IF replay THEN {fetched[repo]} ELSE Responses(today)

Advance ==
    /\ idx' = idx + 1
    /\ pc' = IF idx = Len(REPOS) THEN "aggregate" ELSE "loop"

\* main, lines 244-329, when a request fails with a network error:
\* fetchTrafficData rejects, the catch logs, the pause follows.
FetchRejected ==
    /\ pc = "loop"
    /\ LET repo == REPOS[idx] IN
        /\ NetError \in Upstream(repo)
        /\ fetched' = Put(fetched, repo, NetError)
        /\ outcome' = Put(outcome, repo, "error")
        /\ before' = IF repo \in DOMAIN hd.repositories
                     THEN <<hd.repositories[repo]>> ELSE <<>>
    /\ Advance
    /\ UNCHANGED <<pageVars, totalClonesIncrement, totalViewsIncrement, page, asked, inflight, arrived, env, disk, hd, REPOS, today, cutoff, exitCode, runs, replay, track>>

\* main, lines 249-325: the loop body on repo once fetchTrafficData has
\* resolved with the answers resp.
ApplyLoopBody(repo, resp) ==
    LET data == fetchTrafficData(resp)
        entry == IF repo \in DOMAIN hd.repositories
                 THEN hd.repositories[repo] ELSE NewRepo
        repoData == EnsureLegacyOffset(entry)
    IN  /\ fetched' = Put(fetched, repo, resp)
        /\ before' = IF repo \in DOMAIN hd.repositories
                     THEN <<hd.repositories[repo]>> ELSE <<>>
        /\ IF Has(repoData, "history")
           THEN /\ hd' = [hd EXCEPT !.repositories =
                            Put(@, repo, Reconcile(repoData, data, cutoff))]
                /\ outcome' = Put(outcome, repo, "ok")
                /\ track' = Put(track, repo,
                                Tracked(IF repo \in DOMAIN track THEN track[repo]
                                        ELSE NewTrack(0, 0), data))
           ELSE \* repoData.history.forEach throws a TypeError: caught, logged
                /\ hd' = [hd EXCEPT !.repositories = Put(@, repo, repoData)]
                /\ outcome' = Put(outcome, repo, "error")
                /\ track' = track

\* main, lines 244-329, when the four requests resolve: the loop body on
\* REPOS[idx], then the pause.
ProcessRepository ==
    /\ pc = "loop"
    /\ \E resp \in Upstream(REPOS[idx]) \ {NetError} : ApplyLoopBody(REPOS[idx], resp)
    /\ Advance
    /\ UNCHANGED <<pageVars, totalClonesIncrement, totalViewsIncrement, page, asked, inflight, arrived, env, disk, REPOS, today, cutoff, exitCode, runs, replay>>

\* main, lines 331-349: global totals, lastUpdated, save; the process ends.
AggregateAndSave ==
    /\ pc = "aggregate"
    /\ disk' = saveHistoricalData(Aggregate(hd, runs + 1))
    /\ hd' = DefaultData
    /\ pc' = "idle"
    /\ idx' = 0
    /\ exitCode' = 0
    /\ runs' = runs + 1
    /\ UNCHANGED <<pageVars, totalClonesIncrement, totalViewsIncrement, page, asked, inflight, arrived, env, REPOS, today, cutoff, fetched, outcome, replay, before, track>>

\* A process that writes the document it holds when it dies.
UnparsableBodySavesProgress ==
    /\ pc = "loop"
    /\ ~replay
    /\ fetched' = Put(fetched, REPOS[idx], Unparsable)
    /\ outcome' = Put(outcome, REPOS[idx], "crash")
    /\ before' = IF REPOS[idx] \in DOMAIN hd.repositories
                 THEN <<hd.repositories[REPOS[idx]]>> ELSE <<>>
    /\ disk' = saveHistoricalData(hd)
    /\ hd' = DefaultData
    /\ pc' = "idle"
    /\ idx' = 0
    /\ exitCode' = 1
    /\ runs' = runs + 1
    /\ UNCHANGED <<pageVars, totalClonesIncrement, totalViewsIncrement, page, asked, inflight, arrived, env, REPOS, today, cutoff, replay, track>>

\* main, lines 244-329, when one of the four requests answers 200 with a body
\* that is not JSON: JSON.parse throws in the 'end' listener (line 60), no
\* try/catch is on the stack, and the process dies with exit code 1.  The
\* in-memory document is lost and nothing is saved.
UnparsableBody ==
    /\ pc = "loop"
    /\ ~replay
    /\ fetched' = Put(fetched, REPOS[idx], Unparsable)
    /\ outcome' = Put(outcome, REPOS[idx], "crash")
    /\ before' = IF REPOS[idx] \in DOMAIN hd.repositories
                 THEN <<hd.repositories[REPOS[idx]]>> ELSE <<>>
    /\ hd' = DefaultData
    /\ pc' = "idle"
    /\ idx' = 0
    /\ exitCode' = 1
    /\ runs' = runs + 1
    /\ UNCHANGED <<pageVars, totalClonesIncrement, totalViewsIncrement, page, asked, inflight, arrived, env, disk, REPOS, today, cutoff, replay, track>>

\* main, line 247, when one of the four requests is never answered and none
\* fails: https.get sets no timeout, the promise of that request never
\* settles, and the await of the loop body never resumes.
RequestStalls ==
    /\ pc = "loop"
    /\ ~replay
    /\ pc' = "waiting"
    /\ UNCHANGED <<pageVars, totalClonesIncrement, totalViewsIncrement, page, asked, inflight, arrived, env, disk, hd, REPOS, idx, today, cutoff, fetched, outcome, exitCode,
                   runs, replay, before, track>>

Next ==
    \/ StartNoToken
    \/ StartNoRepos
    \/ StartRun
    \/ StartRepeat
    \/ LoadAndMigrate
    \/ FetchRejected
    \/ ProcessRepository
    \/ AggregateAndSave

Spec == Init /\ [][Next]_vars

\* A ledger file edited outside the collector: schema v2, with an entry that
\* has neither legacyOffset nor history.  loadHistoricalData parses the file
\* without validating it.
EditedLedger ==
    [schemaVersion |-> SCHEMA_VERSION, lastUpdated |-> 0, totalClones |-> 5,
     totalViews |-> 7, totalPRs |-> 1, totalCommits |-> 2, totalContributions |-> 12,
     repositories |-> [n \in {"a"} |->
        [totalClones |-> 5, totalViews |-> 7, totalPRs |-> 1, totalCommits |-> 2]]]

InitEdited ==
    /\ env = [repos |-> {"a"}, window |-> 1,
              advances |-> {0, 1, HISTORY_RETENTION_DAYS, HISTORY_RETENTION_DAYS + 1}]
    /\ disk \in InitialFiles \cup {<<EditedLedger>>}
    /\ Start

SpecEdited == InitEdited /\ [][Next]_vars

\* Two repositories are listed, and a 200 can carry a body that is not JSON.
InitListing ==
    /\ env = [repos |-> Entities, window |-> 1, advances |-> {0}]
    /\ disk = <<>>
    /\ Start

NextUnparsable == Next \/ UnparsableBody

SpecUnparsable == InitListing /\ [][NextUnparsable]_vars

\* A request can stay unanswered.  Every continuation that is ready runs
\* (the event loop is fair), so a run stops only where nothing is enabled.
NextStalls == Next \/ RequestStalls

SpecStalls == InitListing /\ [][NextStalls]_vars /\ WF_vars(NextStalls)

\* The traffic endpoints look two days back; the ledger starts absent.
InitWindow ==
    /\ env = [repos |-> {"a"}, window |-> 2, advances |-> {1}]
    /\ disk = <<>>
    /\ Start

SpecWindow == InitWindow /\ [][Next]_vars

\* ------------------------------------------------- the requests of a fetch
\* fetchTrafficData issues four requests and awaits them jointly.
Endpoints == {"clones", "views", "prs", "contributors"}

\* What makeRequest can resolve to for a request to endpoint e on day t.
AnswersTo(e, t) ==
    IF e \in {"clones", "views"} THEN TrafficResponses(t)
    ELSE IF e = "prs" THEN {PullFailed, PullOk}
    ELSE {ContributorsFailed, ContributorsOk}

Request(repo, e) == [run |-> runs, repo |-> repo, endpoint |-> e]

\* The request belongs to the Promise.all that main is awaiting.
Awaited(req) == pc = "await" /\ req.run = runs /\ req.repo = REPOS[idx]

\* The answer that arrived for endpoint e.
ArrivedFor(e) == arrived[CHOOSE k \in DOMAIN arrived : arrived[k].endpoint = e].resp

\* A result array with its two traffic elements in the order the answers
\* arrived.
PromiseAllByArrival ==
    LET traffic == SelectSeq(arrived, LAMBDA x : x.endpoint \in {"clones", "views"}) IN
    [net |-> "ok", clones |-> traffic[1].resp, views |-> traffic[2].resp,
     prs |-> ArrivedFor("prs"), contributors |-> ArrivedFor("contributors")]

\* Promise.all resolves with the answers in the order of the requests,
\* whatever the order they arrived in.
PromiseAll ==
    [net |-> "ok", clones |-> ArrivedFor("clones"), views |-> ArrivedFor("views"),
     prs |-> ArrivedFor("prs"), contributors |-> ArrivedFor("contributors")]

\* fetchTrafficData, lines 107-117: the four requests of REPOS[idx] go out.
IssueRequests ==
    /\ pc = "loop"
    /\ inflight' = inflight \cup {Request(REPOS[idx], e) : e \in Endpoints}
    /\ arrived' = <<>>
    /\ pc' = "await"
    /\ UNCHANGED <<pageVars, totalClonesIncrement, totalViewsIncrement, page, asked, env, disk, hd, REPOS, idx, today, cutoff, fetched, outcome, exitCode,
                   runs, replay, before, track>>

\* makeRequest, lines 54-70: a request is answered and its promise resolves.
\* An answer to a request of a Promise.all that has already rejected is
\* dropped.
RequestAnswered ==
    \E req \in inflight :
    \E resp \in AnswersTo(req.endpoint, today) :
        /\ inflight' = inflight \ {req}
        /\ arrived' = IF Awaited(req)
                      THEN Append(arrived, [endpoint |-> req.endpoint, resp |-> resp])
                      ELSE arrived
        /\ UNCHANGED <<pageVars, totalClonesIncrement, totalViewsIncrement, page, asked, env, disk, hd, pc, REPOS, idx, today, cutoff, fetched, outcome,
                       exitCode, runs, replay, before, track>>

\* makeRequest, line 71: a request fails with a network error and its promise
\* rejects.  Promise.all rejects at once, without waiting for the other
\* requests; the await throws and main's catch logs (lines 323-325).
RequestFailed ==
    \E req \in inflight :
        /\ inflight' = inflight \ {req}
        /\ IF Awaited(req)
           THEN /\ fetched' = Put(fetched, req.repo, NetError)
                /\ outcome' = Put(outcome, req.repo, "error")
                /\ before' = IF req.repo \in DOMAIN hd.repositories
                             THEN <<hd.repositories[req.repo]>> ELSE <<>>
                /\ arrived' = <<>>
                /\ pc' = "pause"
           ELSE UNCHANGED <<fetched, outcome, before, arrived, pc>>
        /\ UNCHANGED <<pageVars, totalClonesIncrement, totalViewsIncrement, page, asked, env, disk, hd, REPOS, idx, today, cutoff, exitCode, runs, replay, track>>

\* main, lines 247-325: the four answers are in, the await resumes and the
\* loop body runs.
Settled ==
    /\ pc = "await"
    /\ Len(arrived) = Cardinality(Endpoints)
    /\ ApplyLoopBody(REPOS[idx], PromiseAll)
    /\ pc' = "pause"
    /\ UNCHANGED <<pageVars, totalClonesIncrement, totalViewsIncrement, page, asked, inflight, arrived, env, disk, REPOS, idx, today, cutoff, exitCode, runs,
                   replay>>

\* main, line 328: the 100 ms timer fires and the loop moves on.
PauseElapsed ==
    /\ pc = "pause"
    /\ Advance
    /\ UNCHANGED <<pageVars, totalClonesIncrement, totalViewsIncrement, page, asked, inflight, arrived, env, disk, hd, REPOS, today, cutoff, fetched, outcome,
                   exitCode, runs, replay, before, track>>

\* One process, two repositories listed, over no ledger or a ledger in which
\* the earlier collector left both, each request answered or failed on its
\* own.
InitRequests ==
    /\ env = [repos |-> Entities, window |-> 1, advances |-> {}]
    /\ disk \in {f \in InitialFiles : f = <<>> \/ DOMAIN f[1].repositories = Entities}
    /\ Start

NextRequests ==
    \/ StartNoToken
    \/ StartNoRepos
    \/ StartRun
    \/ LoadAndMigrate
    \/ IssueRequests
    \/ RequestAnswered
    \/ RequestFailed
    \/ Settled
    \/ PauseElapsed
    \/ AggregateAndSave

SpecRequests == InitRequests /\ [][NextRequests]_vars

\* ------------------------------------------------- the repository listing
\* fetchAllPublicRepos asks the listing page by page.  The server cuts the
\* account's public repositories into pages of PerPage names (per_page=100
\* in the request) and answers [] past the last one.
PageOf(names, k) ==
    SubSeq(names, (k - 1) * PerPage + 1,
           IF k * PerPage < Len(names) THEN k * PerPage ELSE Len(names))

\* makeRequest on a status other than 200: { data: null, headers: {} }.
PageFailed == [ok |-> FALSE, names |-> <<>>]

PageOk(k) == [ok |-> TRUE, names |-> PageOf(env.listing, k)]

\* A listing filter that lets every name through.
TrackableAny(name) == TRUE

\* fetchAllPublicRepos, line 92.
Trackable(name) == name # PORTFOLIO_REPO /\ name \notin EXCLUDED_REPOS

\* main, lines 186-192: the credential is set; fetchAllPublicRepos starts
\* with page 1 and no names.
StartDiscovery ==
    /\ pc = "idle"
    /\ runs < MaxRuns
    /\ today' \in DaysOfNextRun
    /\ pc' = "discover"
    /\ page' = 1
    /\ asked' = <<>>
    /\ REPOS' = <<>>
    /\ fetched' = Empty
    /\ outcome' = Empty
    /\ replay' = FALSE
    /\ UNCHANGED <<pageVars, totalClonesIncrement, totalViewsIncrement, inflight, arrived, env, disk, hd, idx, cutoff, exitCode, runs, before, track>>

\* fetchAllPublicRepos, lines 81-98, one turn of the while loop; when the
\* loop ends, main, lines 192-197.
FetchPage ==
    /\ pc = "discover"
    /\ \E response \in {PageFailed, PageOk(page)} :
        /\ asked' = Append(asked, [page |-> page, response |-> response])
        /\ IF ~response.ok \/ Len(response.names) = 0
           THEN /\ page' = 0
                /\ REPOS' = REPOS
                /\ IF Len(REPOS) = 0
                   THEN /\ pc' = "idle"
                        /\ exitCode' = 1
                        /\ runs' = runs + 1
                   ELSE /\ pc' = "load"
                        /\ UNCHANGED <<exitCode, runs>>
           ELSE /\ REPOS' = REPOS \o SelectSeq(response.names, Trackable)
                /\ page' = page + 1
                /\ UNCHANGED <<pc, exitCode, runs>>
    /\ UNCHANGED <<pageVars, totalClonesIncrement, totalViewsIncrement, inflight, arrived, env, disk, hd, idx, today, cutoff, fetched, outcome, replay, before, track>>

\* makeRequest, line 71, under fetchAllPublicRepos: the request fails with a
\* network error, the rejection reaches main().catch (lines 360-363).
PageRejected ==
    /\ pc = "discover"
    /\ asked' = Append(asked, [page |-> page, response |-> NetError])
    /\ page' = 0
    /\ REPOS' = <<>>
    /\ pc' = "idle"
    /\ exitCode' = 1
    /\ runs' = runs + 1
    /\ UNCHANGED <<pageVars, totalClonesIncrement, totalViewsIncrement, inflight, arrived, env, disk, hd, idx, today, cutoff, fetched, outcome, replay, before, track>>

\* The account's public repositories, in listing order.
Accounts ==
    {<<>>,
     <<PORTFOLIO_REPO, "AWS---Hackathon---KIRO">>,
     <<"a", PORTFOLIO_REPO>>,
     <<"a", PORTFOLIO_REPO, "AWS---Hackathon---KIRO", "b">>,
     <<"AWS---Hackathon---KIRO", "a", PORTFOLIO_REPO, PORTFOLIO_REPO, "b">>}

\* A v2 ledger written while a repository now on the exclusion list was
\* still tracked.
LedgerBeforeExclusion ==
    [schemaVersion |-> SCHEMA_VERSION, lastUpdated |-> 0, totalClones |-> 5,
     totalViews |-> 7, totalPRs |-> 1, totalCommits |-> 2, totalContributions |-> 12,
     repositories |-> [n \in EXCLUDED_REPOS |->
        [legacyOffset |-> [clones |-> 5, views |-> 7], totalClones |-> 5,
         totalViews |-> 7, totalPRs |-> 1, totalCommits |-> 2, history |-> <<>>]]]

InitDiscovery ==
    /\ env \in {[repos |-> {n \in Entities : \E k \in DOMAIN l : l[k] = n}, window |-> 1,
                 advances |-> {}, listing |-> l] : l \in Accounts}
    /\ disk \in {<<>>, <<LedgerBeforeExclusion>>}
    /\ Start

NextDiscovery ==
    \/ StartNoToken
    \/ StartDiscovery
    \/ FetchPage
    \/ PageRejected
    \/ LoadAndMigrate
    \/ FetchRejected
    \/ ProcessRepository
    \/ AggregateAndSave

SpecDiscovery == InitDiscovery /\ [][NextDiscovery]_vars

\* ------------------------------------- the earlier collector (schema v1)
\* The collector before per-day reconciliation: REPOS is a fixed list, each
\* run fetches every repository's rolling-window aggregate, records it as
\* the day's history entry and adds to the totals what the window grew by
\* since the previous entry.  Its lastUpdated is an ISO timestamp: the pair
\* of the run's day and the number of the run.

\* loadHistoricalData (earlier collector): the parsed file or the default.
DefaultDataV1 ==
    [lastUpdated |-> <<>>, totalClones |-> 0, totalViews |-> 0, totalPRs |-> 0,
     totalCommits |-> 0, repositories |-> Empty]

loadHistoricalDataV1(file) == IF file = <<>> THEN DefaultDataV1 ELSE file[1]

\* What makeRequest can resolve to for a traffic endpoint without ?per=day:
\* the aggregate of the window, or a non-success status (data: null).
AggregateResponses ==
    {[status |-> 403, count |-> 0, uniques |-> 0]}
    \cup {[status |-> 200, count |-> c, uniques |-> c - 1] : c \in env.counts}

ResponsesV1 ==
    {NetError}
    \cup {[net |-> "ok", clones |-> c, views |-> v, prs |-> p.prs,
            contributors |-> p.contributors] :
            c \in AggregateResponses, v \in AggregateResponses, p \in env.points}

\* fetchTrafficData (earlier collector), lines 102-115.
fetchTrafficDataV1(resp) ==
    [clones  |-> IF Succeeded(resp.clones)
                 THEN [count |-> resp.clones.count, uniques |-> resp.clones.uniques]
                 ELSE [count |-> 0, uniques |-> 0],
     views   |-> IF Succeeded(resp.views)
                 THEN [count |-> resp.views.count, uniques |-> resp.views.uniques]
                 ELSE [count |-> 0, uniques |-> 0],
     prs     |-> prCount(resp.prs),
     commits |-> commitCount(resp.contributors)]

\* main (earlier collector), lines 165-171.
NewRepoV1 ==
    [totalClones |-> 0, totalViews |-> 0, totalPRs |-> 0, totalCommits |-> 0,
     history |-> <<>>]

\* repoData.history.find(h => h.date === today)
TodayEntry(history, t) == {k \in DOMAIN history : history[k].date = t}

\* A delta that may be negative.
DeltaSigned(count, previous) == count - previous

\* Math.max(0, count - previous)
Delta(count, previous) == IF count - previous > 0 THEN count - previous ELSE 0

\* history.slice(-90) when the history is longer than 90 entries.
KeepLast(history) ==
    IF Len(history) > HistoryKept
    THEN SubSeq(history, Len(history) - HistoryKept + 1, Len(history))
    ELSE history

\* Lines 181-210, taken whether or not the day has its entry.
RecordDay(repoData, data, t) ==
    LET pushed == Append(repoData.history,
                         [date |-> t, clones |-> data.clones.count,
                          views |-> data.views.count, prs |-> data.prs,
                          commits |-> data.commits])
        first == Len(pushed) = 1
        yesterday == pushed[Len(pushed) - 1]
        clonesDelta == IF first THEN data.clones.count
                       ELSE Delta(data.clones.count, yesterday.clones)
        viewsDelta == IF first THEN data.views.count
                      ELSE Delta(data.views.count, yesterday.views)
    IN  [repoData |-> [repoData EXCEPT !.history = KeepLast(pushed),
                                       !.totalClones = @ + clonesDelta,
                                       !.totalViews = @ + viewsDelta,
                                       !.totalPRs = data.prs,
                                       !.totalCommits = data.commits],
         clones |-> clonesDelta, views |-> viewsDelta]

\* A loop body that records the day whether or not it has its entry.
CollectAgain(repoData, data, t) == RecordDay(repoData, data, t)

\* main (earlier collector), lines 174-220, on the repository's entry: the
\* entry after the loop body and what the body adds to the two increments.
Collect(repoData, data, t) ==
    IF TodayEntry(repoData.history, t) = {}
    THEN RecordDay(repoData, data, t)
    ELSE [repoData |-> [repoData EXCEPT !.history = KeepLast(@)],
          clones |-> 0, views |-> 0]

\* Global totals set to this run's increments.
UpdateTotalsFromIncrements(h, clonesInc, viewsInc, stamp) ==
    LET names == DOMAIN h.repositories IN
    [h EXCEPT !.totalClones = clonesInc, !.totalViews = viewsInc,
              !.totalPRs = SumOver([n \in names |-> Field(h.repositories[n], "totalPRs", 0)], names),
              !.totalCommits = SumOver([n \in names |-> Field(h.repositories[n], "totalCommits", 0)], names),
              !.lastUpdated = stamp]

\* main (earlier collector), lines 230-243.
UpdateTotals(h, clonesInc, viewsInc, stamp) ==
    LET names == DOMAIN h.repositories IN
    [h EXCEPT !.totalClones = @ + clonesInc, !.totalViews = @ + viewsInc,
              !.totalPRs = SumOver([n \in names |-> Field(h.repositories[n], "totalPRs", 0)], names),
              !.totalCommits = SumOver([n \in names |-> Field(h.repositories[n], "totalCommits", 0)], names),
              !.lastUpdated = stamp]

\* main (earlier collector), lines 145-156: the credential is set, the ledger
\* is loaded, the increments start at 0.
StartCollection ==
    /\ pc = "idle"
    /\ runs < MaxRuns
    /\ today' \in DaysOfNextRun
    /\ hd' = loadHistoricalDataV1(disk)
    /\ totalClonesIncrement' = 0
    /\ totalViewsIncrement' = 0
    /\ fetched' = Empty
    /\ outcome' = Empty
    /\ idx' = 1
    /\ pc' = "loop"
    /\ UNCHANGED <<pageVars, page, asked, inflight, arrived, env, disk, REPOS, cutoff, exitCode, runs, replay, before, track>>

\* main (earlier collector), lines 158-228, when fetchTrafficData resolves.
CollectRepository ==
    /\ pc = "loop"
    /\ \E resp \in ResponsesV1 \ {NetError} :
        LET repo == REPOS[idx]
            entry == IF repo \in DOMAIN hd.repositories
                     THEN hd.repositories[repo] ELSE NewRepoV1
            done == Collect(entry, fetchTrafficDataV1(resp), today)
        IN  /\ fetched' = Put(fetched, repo, resp)
            /\ outcome' = Put(outcome, repo, "ok")
            /\ before' = IF repo \in DOMAIN hd.repositories
                         THEN <<hd.repositories[repo]>> ELSE <<>>
            /\ hd' = [hd EXCEPT !.repositories = Put(@, repo, done.repoData)]
            /\ totalClonesIncrement' = totalClonesIncrement + done.clones
            /\ totalViewsIncrement' = totalViewsIncrement + done.views
    /\ Advance
    /\ UNCHANGED <<pageVars, page, asked, inflight, arrived, env, disk, REPOS, today, cutoff, exitCode, runs, replay, track>>

\* main (earlier collector), lines 158-228, when a request fails with a
\* network error: fetchTrafficData rejects, the catch logs.
CollectRejected ==
    /\ pc = "loop"
    /\ fetched' = Put(fetched, REPOS[idx], NetError)
    /\ outcome' = Put(outcome, REPOS[idx], "error")
    /\ before' = IF REPOS[idx] \in DOMAIN hd.repositories
                 THEN <<hd.repositories[REPOS[idx]]>> ELSE <<>>
    /\ Advance
    /\ UNCHANGED <<pageVars, totalClonesIncrement, totalViewsIncrement, page, asked, inflight, arrived, env, disk, hd, REPOS, today, cutoff, exitCode, runs, replay, track>>

\* main (earlier collector), lines 230-245: global totals, lastUpdated, save.
UpdateTotalsAndSave ==
    /\ pc = "aggregate"
    /\ disk' = saveHistoricalData(UpdateTotals(hd, totalClonesIncrement,
                                               totalViewsIncrement,
                                               <<today, runs + 1>>))
    /\ hd' = DefaultDataV1
    /\ pc' = "idle"
    /\ idx' = 0
    /\ exitCode' = 0
    /\ runs' = runs + 1
    /\ UNCHANGED <<pageVars, totalClonesIncrement, totalViewsIncrement, page, asked, inflight, arrived, env, REPOS, today, cutoff, fetched, outcome, replay, before, track>>

\* A repository the earlier collector has recorded on each of the last
\* HistoryKept days, its window count growing by one a day from 1.
RecordedDaily ==
    [totalClones |-> HistoryKept, totalViews |-> HistoryKept, totalPRs |-> 3,
     totalCommits |-> 5,
     history |-> [k \in 1..HistoryKept |->
                    [date |-> k - HistoryKept - 1, clones |-> k, views |-> k,
                     prs |-> 3, commits |-> 5]]]

LedgerOfDailyRuns ==
    [lastUpdated |-> <<0 - 1, 0>>, totalClones |-> HistoryKept,
     totalViews |-> HistoryKept, totalPRs |-> 3, totalCommits |-> 5,
     repositories |-> [n \in {"a"} |-> RecordedDaily]]

\* The state of the earlier collector before its first run.
StartV1 ==
    /\ hd = DefaultDataV1
    /\ pc = "idle"
    /\ idx = 0
    /\ today = 0
    /\ cutoff = 0
    /\ fetched = Empty
    /\ outcome = Empty
    /\ exitCode = 0
    /\ runs = 0
    /\ replay = FALSE
    /\ before = <<>>
    /\ track = Empty
    /\ inflight = {}
    /\ arrived = <<>>
    /\ page = 0
    /\ asked = <<>>
    /\ totalClonesIncrement = 0
    /\ totalViewsIncrement = 0
    /\ PageUnloaded

\* One repository on the list; the ledger file is absent or holds a full
\* history.
InitV1 ==
    /\ env = [repos |-> {"a"}, window |-> 14, advances |-> {0, 1}, counts |-> Counts,
              points |-> PointResponses]
    /\ REPOS = <<"a">>
    /\ disk \in {<<>>, <<LedgerOfDailyRuns>>}
    /\ StartV1

NextV1 ==
    \/ StartNoToken
    \/ StartCollection
    \/ CollectRepository
    \/ CollectRejected
    \/ UpdateTotalsAndSave

SpecV1 == InitV1 /\ [][NextV1]_vars

\* Two repositories on the list, from an empty ledger; a traffic request
\* is refused or reports a window count of 3.
InitV1Listed ==
    /\ env = [repos |-> Entities, window |-> 14, advances |-> {0, 1}, counts |-> {3},
              points |-> {[prs |-> PullOk, contributors |-> ContributorsOk]}]
    /\ REPOS = ListingOrder
    /\ disk = <<>>
    /\ StartV1

SpecV1Listed == InitV1Listed /\ [][NextV1]_vars

\* ------------------------------------------- the portfolio page's script
\* showInsightsLoading: the cards that get a loader.
showInsightsLoading ==
    {InsightCards[k] : k \in {j \in DOMAIN InsightCards :
        /\ ProjectCards[InsightCards[j]].footer
        /\ HasGitHubLink(ProjectCards[InsightCards[j]])}}

\* The page's loadHistoricalData: fetch('data/traffic-history.json') gives
\* the ledger file, or null when the response is not ok or the fetch throws.
HistoricalFetches == {<<>>} \cup (IF disk = <<>> THEN {} ELSE {disk})

\* What a traffic endpoint answers to the page.
StatsAnswers ==
    {[status |-> 403, count |-> 0, uniques |-> 0]}
    \cup {[status |-> 200, count |-> c, uniques |-> c] : c \in env.counts}

\* fetchCloneStats / fetchViewStats: <<stats>>, or <<>> for null.
fetchStats(res) ==
    IF Succeeded(res) THEN <<[count |-> res.count, uniques |-> res.uniques]>> ELSE <<>>

\* What the API answers to the requests of one fetchRepoInsights: the
\* repository request gets the repository, an error body (message,
\* documentation_url) or no answer (the catch gives {}).
ApiAnswers ==
    {[repoData |-> r, clones |-> c, views |-> v] :
        r \in {"repository", "error", "unreachable"},
        c \in StatsAnswers, v \in StatsAnswers}

\* fetchRepoInsights, lines 278-302: the API's stats, else the ledger's total
\* when the ledger has the repository and the total is truthy, else null.
FinalStats(stats, historical, repoName, field) ==
    IF /\ stats = <<>>
       /\ historical # <<>>
       /\ repoName \in DOMAIN historical[1].repositories
       /\ Field(historical[1].repositories[repoName], field, 0) # 0
    THEN <<[count |-> historical[1].repositories[repoName][field], uniques |-> 0]>>
    ELSE stats

\* fetchRepoInsights: <<insights>>, or <<>> for null.
fetchRepoInsights(repoName, api, historical) ==
    LET cloneStats == fetchStats(api.clones)
        viewStats == fetchStats(api.views)
    IN  IF api.repoData = "error" THEN <<>>
        ELSE <<[clones |-> FinalStats(cloneStats, historical, repoName, "totalClones"),
                views  |-> FinalStats(viewStats, historical, repoName, "totalViews")]>>

\* getRepoInsights (historical-data script), part_001 lines 116-129.
getRepoInsights(repoName, historical) ==
    IF historical = <<>> \/ repoName \notin DOMAIN historical[1].repositories THEN <<>>
    ELSE LET repoData == historical[1].repositories[repoName] IN
         <<[clones |-> IF Field(repoData, "totalClones", 0) > 0
                       THEN <<[count |-> repoData.totalClones, uniques |-> 0]>> ELSE <<>>,
            views  |-> IF Field(repoData, "totalViews", 0) > 0
                       THEN <<[count |-> repoData.totalViews, uniques |-> 0]>> ELSE <<>>]>>

\* The insights HTML of updateProjectCard: the clone figure, the view figure
\* and whether N.A is shown.
InsightsHTML(insights) ==
    [clones |-> IF insights.clones # <<>> /\ insights.clones[1].count > 0
                THEN <<insights.clones[1].count>> ELSE <<>>,
     views  |-> IF insights.views # <<>> /\ insights.views[1].count > 0
                THEN <<insights.views[1].count>> ELSE <<>>,
     na     |-> insights.clones = <<>> /\ insights.views = <<>>]

\* The N.A block of the historical-data script.
NotAvailable == [clones |-> <<>>, views |-> <<>>, na |-> TRUE]

\* The container is in the document only when the card has a footer to
\* insert it before.
Render(dom, c, html) ==
    IF ProjectCards[c].footer
    THEN [dom EXCEPT !.rendered = [@ EXCEPT ![c] = <<html>>]]
    ELSE dom

RemoveLoader(dom, c) == [dom EXCEPT !.loader = @ \ {c}]

\* updateProjectCard (API-backed script), script.js lines 352-406.
updateProjectCard(dom, c, insights) ==
    IF insights = <<>> THEN dom
    ELSE Render(RemoveLoader(dom, c), c, InsightsHTML(insights[1]))

\* updateProjectCard (historical-data script), part_001 lines 132-190.
updateProjectCardHistorical(dom, c, insights) ==
    IF insights = <<>> THEN Render(RemoveLoader(dom, c), c, NotAvailable)
    ELSE Render(RemoveLoader(dom, c), c, InsightsHTML(insights[1]))

\* initializeGitHubInsights (historical-data script), the for...of loop
\* from position k on, part_001 lines 294-312.
RECURSIVE PopulateCards(_, _, _)
PopulateCards(dom, k, historical) ==
    IF k > Len(InsightCards) THEN dom
    ELSE LET c == InsightCards[k]
             card == ProjectCards[c]
             repoName == extractRepoName(card.href)
         IN  PopulateCards(
                IF HasGitHubLink(card) /\ repoName # <<>>
                THEN updateProjectCardHistorical(dom, c,
                        getRepoInsights(repoName[1], historical))
                ELSE RemoveLoader(dom, c),
                k + 1, historical)

\* The active classes after a click that adds the class to the clicked
\* button only.
ActivateAlso(btn) == active \cup {btn}

\* Filter click handler, lines 51-52.
Activate(btn) == (active \ FilterButtons) \cup {btn}

\* Filter click handler, lines 56-63.
Displayed(card, filter) ==
    IF filter = "all" \/ card.category = filter THEN "flex" ELSE "none"

\* The script runs: the handlers are registered (lines 44-65),
\* showInsightsLoading inserts the loaders, initializeGitHubInsights starts
\* and awaits loadHistoricalData.
PageLoaded ==
    /\ ui = "unloaded"
    /\ loader' = loader \cup showInsightsLoading
    /\ ui' = "history"
    /\ UNCHANGED <<cardAt, historicalTrafficData, rendered, active, display, clicks, answers>>
    /\ UNCHANGED <<env, disk, hd, pc, REPOS, idx, today, cutoff, fetched, outcome, exitCode,
                   runs, replay, before, track, inflight, arrived, page, asked,
                   totalClonesIncrement, totalViewsIncrement>>

\* initializeGitHubInsights (API-backed script), lines 591-596.
HistoryLoaded ==
    /\ ui = "history"
    /\ env.script = "api"
    /\ historicalTrafficData' \in HistoricalFetches
    /\ cardAt' = 1
    /\ ui' = "cards"
    /\ UNCHANGED <<loader, rendered, active, display, clicks, answers>>
    /\ UNCHANGED <<env, disk, hd, pc, REPOS, idx, today, cutoff, fetched, outcome, exitCode,
                   runs, replay, before, track, inflight, arrived, page, asked,
                   totalClonesIncrement, totalViewsIncrement>>

\* initializeGitHubInsights (API-backed script), lines 597-620: one turn of
\* the for...of loop, fetchRepoInsights answered.
ProcessCard ==
    /\ ui = "cards"
    /\ LET c == InsightCards[cardAt]
           card == ProjectCards[c]
           repoName == extractRepoName(card.href)
           dom == [loader |-> loader, rendered |-> rendered]
       IN  IF HasGitHubLink(card) /\ repoName # <<>>
           THEN \E api \in ApiAnswers :
                    LET insights == fetchRepoInsights(repoName[1], api, historicalTrafficData)
                        after == updateProjectCard(dom, c, insights)
                    IN  /\ loader' = after.loader
                        /\ rendered' = after.rendered
                        /\ answers' = Put(answers, c, api)
           ELSE /\ loader' = loader \ {c}
                /\ UNCHANGED <<rendered, answers>>
    /\ cardAt' = cardAt + 1
    /\ ui' = IF cardAt = Len(InsightCards) THEN "done" ELSE "cards"
    /\ UNCHANGED <<historicalTrafficData, active, display, clicks>>
    /\ UNCHANGED <<env, disk, hd, pc, REPOS, idx, today, cutoff, fetched, outcome, exitCode,
                   runs, replay, before, track, inflight, arrived, page, asked,
                   totalClonesIncrement, totalViewsIncrement>>

\* initializeGitHubInsights (historical-data script), part_001 lines
\* 281-318: the ledger arrives or not; without it the function returns,
\* with it every card is populated before the next await.
PopulateFromHistory ==
    /\ ui = "history"
    /\ env.script = "historical"
    /\ \E data \in HistoricalFetches :
        /\ historicalTrafficData' = data
        /\ LET after == IF data = <<>> THEN [loader |-> loader, rendered |-> rendered]
                        ELSE PopulateCards([loader |-> loader, rendered |-> rendered],
                                           1, data)
           IN  /\ loader' = after.loader
               /\ rendered' = after.rendered
    /\ ui' = "done"
    /\ UNCHANGED <<cardAt, active, display, clicks, answers>>
    /\ UNCHANGED <<env, disk, hd, pc, REPOS, idx, today, cutoff, fetched, outcome, exitCode,
                   runs, replay, before, track, inflight, arrived, page, asked,
                   totalClonesIncrement, totalViewsIncrement>>

\* Filter button click handler, lines 49-64.
ClickFilter ==
    /\ ui # "unloaded"
    /\ Len(clicks) < MaxClicks
    /\ \E btn \in FilterButtons :
        /\ active' = Activate(btn)
        /\ display' = [c \in Cards |-> Displayed(ProjectCards[c], btn)]
        /\ clicks' = Append(clicks, btn)
    /\ UNCHANGED <<ui, cardAt, historicalTrafficData, loader, rendered, answers>>
    /\ UNCHANGED <<env, disk, hd, pc, REPOS, idx, today, cutoff, fetched, outcome, exitCode,
                   runs, replay, before, track, inflight, arrived, page, asked,
                   totalClonesIncrement, totalViewsIncrement>>

\* The page is opened with either script, over no ledger file or a ledger the
\* collector has published; the markup may mark any of the filter buttons
\* active.
InitPage ==
    /\ env \in {[repos |-> Entities, window |-> 14, advances |-> {}, counts |-> {0, 3},
                 script |-> s] : s \in {"api", "historical"}}
    /\ disk \in InitialFiles
    /\ hd = DefaultData
    /\ pc = "idle"
    /\ REPOS = <<>>
    /\ idx = 0
    /\ today = 0
    /\ cutoff = 0
    /\ fetched = Empty
    /\ outcome = Empty
    /\ exitCode = 0
    /\ runs = 0
    /\ replay = FALSE
    /\ before = <<>>
    /\ track = Empty
    /\ inflight = {}
    /\ arrived = <<>>
    /\ page = 0
    /\ asked = <<>>
    /\ totalClonesIncrement = 0
    /\ totalViewsIncrement = 0
    /\ ui = "unloaded"
    /\ cardAt = 0
    /\ historicalTrafficData = <<>>
    /\ loader = {}
    /\ rendered = [c \in Cards |-> <<>>]
    /\ active \in SUBSET FilterButtons
    /\ display = [c \in Cards |-> ""]
    /\ clicks = <<>>
    /\ answers = Empty

NextPage ==
    \/ PageLoaded
    \/ HistoryLoaded
    \/ ProcessCard
    \/ PopulateFromHistory
    \/ ClickFilter

SpecPage == InitPage /\ [][NextPage]_vars

\* ------------------------------------------------------------------ claims
\* The document a reader of the ledger sees: the in-memory one while the
\* loop runs, the file otherwise.
Doc == IF pc \in {"loop", "aggregate"} THEN hd ELSE loadHistoricalData(disk)

\* The file was written by the v2 collector.
SavedV2 == disk # <<>> /\ disk[1].schemaVersion = SCHEMA_VERSION

\* The loop body has just run on Last.
AfterLoopBody == pc \in {"loop", "aggregate"} /\ idx > 1

Last == REPOS[idx - 1]

LastData == fetchTrafficData(fetched[Last])

LastEntry == hd.repositories[Last]

Dates(h) == {h[k].date : k \in DOMAIN h}

RecordsOf(h, d) == {k \in DOMAIN h : h[k].date = d}

\* Every request of the fetch failed: a network error, or four non-success
\* responses.
FetchFailed(resp) ==
    \/ resp = NetError
    \/ /\ resp.net = "ok"
       /\ ~Succeeded(resp.clones) /\ ~Succeeded(resp.views)
       /\ ~Succeeded(resp.prs) /\ ~Succeeded(resp.contributors)

\* C1: after every completed run of the v2 collector, every entity of the
\* saved ledger has totalClones = legacyOffset.clones + sum of its history's
\* clones and totalViews = legacyOffset.views + sum of its history's views.
C1_TotalsAreOffsetPlusHistory ==
    SavedV2 =>
        \A n \in DOMAIN disk[1].repositories :
            LET r == disk[1].repositories[n] IN
                /\ r.totalClones = r.legacyOffset.clones + SumClones(r.history)
                /\ r.totalViews = r.legacyOffset.views + SumViews(r.history)

\* C2: a successfully processed entity's totalClones (totalViews) equals its
\* baseline at the start of per-day tracking plus, for each distinct date ever
\* fetched, the count of the most recent fetch that contained that date.
C2_TotalIsBaselinePlusLatestPerDate ==
    \A n \in DOMAIN track :
        track[n].processed =>
            /\ n \in DOMAIN Doc.repositories
            /\ Doc.repositories[n].totalClones =
                   track[n].base.clones + SumOver(track[n].clones, DOMAIN track[n].clones)
            /\ Doc.repositories[n].totalViews =
                   track[n].base.views + SumOver(track[n].views, DOMAIN track[n].views)

\* A migrated entity with a non-zero baseline whose stored day was fetched
\* again with another count.
C2_Witness ==
    /\ AfterLoopBody
    /\ outcome[Last] = "ok"
    /\ track[Last].base.clones > 0
    /\ before # <<>>
    /\ \E k \in DOMAIN before[1].history, j \in DOMAIN LastData.clonesByDay :
          /\ before[1].history[k].date = LastData.clonesByDay[j].date
          /\ before[1].history[k].clones # LastData.clonesByDay[j].count

\* C3: when a date already in the history is fetched again while it is inside
\* the retention window, its record holds the newly fetched count and the
\* total counts that date once, with the new count (same for views).
C3_LatestFetchWins ==
    (AfterLoopBody /\ outcome[Last] = "ok" /\ before # <<>>) =>
        /\ \A j \in DOMAIN LastData.clonesByDay :
            LET t == LastData.clonesByDay[j] IN
            (t.date \in Dates(before[1].history) /\ t.date >= cutoff) =>
                /\ Cardinality(RecordsOf(LastEntry.history, t.date)) = 1
                /\ \A k \in RecordsOf(LastEntry.history, t.date) :
                    /\ LastEntry.history[k].clones = t.count
                    /\ LastEntry.totalClones =
                        LastEntry.legacyOffset.clones + t.count
                        + SumClones(SelectSeq(LastEntry.history,
                                              LAMBDA e : e.date # t.date))
        /\ \A j \in DOMAIN LastData.viewsByDay :
            LET t == LastData.viewsByDay[j] IN
            (t.date \in Dates(before[1].history) /\ t.date >= cutoff) =>
                /\ Cardinality(RecordsOf(LastEntry.history, t.date)) = 1
                /\ \A k \in RecordsOf(LastEntry.history, t.date) :
                    /\ LastEntry.history[k].views = t.count
                    /\ LastEntry.totalViews =
                        LastEntry.legacyOffset.views + t.count
                        + SumViews(SelectSeq(LastEntry.history,
                                             LAMBDA e : e.date # t.date))

\* A stored day with a clones count a > 0 was fetched again with b # a.
C3_Witness ==
    /\ AfterLoopBody
    /\ outcome[Last] = "ok"
    /\ before # <<>>
    /\ \E k \in DOMAIN before[1].history, j \in DOMAIN LastData.clonesByDay :
          /\ before[1].history[k].date = LastData.clonesByDay[j].date
          /\ before[1].history[k].date >= cutoff
          /\ before[1].history[k].clones > 0
          /\ before[1].history[k].clones < LastData.clonesByDay[j].count

\* C4: a run repeated on the same day with identical responses for every
\* entity saves a ledger equal to the previous one but for lastUpdated.
C4_RepeatedRunChangesNothing ==
    [][(pc = "aggregate" /\ replay) =>
          [disk'[1] EXCEPT !.lastUpdated = 0] = [disk[1] EXCEPT !.lastUpdated = 0]]_vars

\* A repeated run has been saved over a ledger that holds history.
C4_Witness ==
    /\ pc = "idle"
    /\ replay
    /\ exitCode = 0
    /\ disk[1].lastUpdated = runs
    /\ \E n \in DOMAIN disk[1].repositories :
          /\ n \in DOMAIN outcome
          /\ outcome[n] = "ok"
          /\ disk[1].repositories[n].history # <<>>
          /\ disk[1].repositories[n].legacyOffset.clones > 0

\* C5: reconciliation removes every history record dated before the cutoff
\* and adds exactly its clones and views to legacyOffset, so the totals are
\* what they would be had the record been kept.
C5_AgedRecordsAreAbsorbed ==
    (AfterLoopBody /\ outcome[Last] = "ok" /\ before # <<>>) =>
        LET old == before[1]
            aged == SelectSeq(old.history, LAMBDA e : e.date < today - HISTORY_RETENTION_DAYS)
        IN  /\ LastEntry.legacyOffset.clones = old.legacyOffset.clones + SumClones(aged)
            /\ LastEntry.legacyOffset.views = old.legacyOffset.views + SumViews(aged)
            /\ \A k \in DOMAIN LastEntry.history :
                  ~(LastEntry.history[k].date < today - HISTORY_RETENTION_DAYS)
            /\ LastEntry.totalClones =
                  old.legacyOffset.clones + SumClones(aged) + SumClones(LastEntry.history)
            /\ LastEntry.totalViews =
                  old.legacyOffset.views + SumViews(aged) + SumViews(LastEntry.history)
            /\ \A k \in DOMAIN old.history :
                  ~(old.history[k].date < today - HISTORY_RETENTION_DAYS) =>
                      old.history[k].date \in Dates(LastEntry.history)

\* A record with clones was aged into a non-zero legacyOffset.
C5_Witness ==
    /\ AfterLoopBody
    /\ outcome[Last] = "ok"
    /\ before # <<>>
    /\ before[1].legacyOffset.clones > 0
    /\ \E k \in DOMAIN before[1].history :
          /\ before[1].history[k].date < cutoff
          /\ before[1].history[k].clones > 0
          /\ before[1].history[k].date \notin Dates(LastEntry.history)

\* C6: right after migration, before any fetch result is applied, every
\* stored entity has legacyOffset = its prior totals, an empty history, and
\* totalClones / totalViews equal to the prior totals.
C6_MigrationKeepsTotals ==
    (pc = "loop" /\ idx = 1 /\ NeedsMigration(loadHistoricalData(disk))) =>
        \A n \in DOMAIN hd.repositories :
            LET prior == loadHistoricalData(disk).repositories[n]
                r == hd.repositories[n]
            IN  /\ r.legacyOffset.clones = prior.totalClones
                /\ r.legacyOffset.views = prior.totalViews
                /\ r.history = <<>>
                /\ r.totalClones = prior.totalClones
                /\ r.totalViews = prior.totalViews

\* C7: for every entity of the ledger, totalClones and totalViews after a run
\* are at least their values after the previous run.
C7_TotalsNeverDecrease ==
    [][(disk # <<>> /\ disk' # disk) =>
          \A n \in DOMAIN disk[1].repositories :
              /\ n \in DOMAIN disk'[1].repositories
              /\ disk'[1].repositories[n].totalClones >= disk[1].repositories[n].totalClones
              /\ disk'[1].repositories[n].totalViews >= disk[1].repositories[n].totalViews]_vars

\* C8: legacyOffset never decreases from one saved ledger to the next; once
\* set it grows only by the clones / views of the aged records a successful
\* reconciliation absorbs, and is never reset or overwritten.
C8_LegacyOffsetOnlyAbsorbs ==
    [][(SavedV2 /\ disk' # disk) =>
          \A n \in DOMAIN disk[1].repositories :
              LET old == disk[1].repositories[n]
                  new == disk'[1].repositories[n]
                  aged == IF n \in DOMAIN outcome /\ outcome[n] = "ok"
                          THEN SelectSeq(old.history, LAMBDA e : e.date < cutoff)
                          ELSE <<>>
              IN  /\ new.legacyOffset.clones >= old.legacyOffset.clones
                  /\ new.legacyOffset.views >= old.legacyOffset.views
                  /\ new.legacyOffset.clones = old.legacyOffset.clones + SumClones(aged)
                  /\ new.legacyOffset.views = old.legacyOffset.views + SumViews(aged)]_vars

\* A legacyOffset set by the migration has since grown by absorbing a record.
C8_Witness ==
    /\ pc = "idle"
    /\ SavedV2
    /\ \E n \in DOMAIN disk[1].repositories \cap DOMAIN track :
          /\ track[n].base.clones > 0
          /\ disk[1].repositories[n].legacyOffset.clones > track[n].base.clones

\* C9: when the fetch for an entity fails (a network error, or non-success
\* responses), the entity's stored entry is left identical: history,
\* legacyOffset and the four totals.
C9_FailedFetchLeavesEntry ==
    (AfterLoopBody /\ FetchFailed(fetched[Last]) /\ before # <<>>) =>
        /\ Last \in DOMAIN hd.repositories
        /\ hd.repositories[Last] = before[1]

C11_FailureDoesNotStopRun ==
    [][/\ pc = "loop" =>
            /\ pc' \in {"loop", "aggregate"}
            /\ exitCode' = exitCode
            /\ pc' = "aggregate" =>
                    \A k \in DOMAIN REPOS : REPOS[k] \in DOMAIN outcome'
       /\ pc = "aggregate" =>
            /\ disk' = saveHistoricalData(Aggregate(hd, runs + 1))
            /\ exitCode' = 0]_vars

\* C12: after every completed run the ledger's global totalClones,
\* totalViews, totalPRs and totalCommits are the sums of the entities' totals
\* over every entity of the ledger, processed in that run or not, and
\* totalContributions = totalCommits + 10 * totalPRs.
C12_GlobalTotalsAreSums ==
    (SavedV2 /\ disk[1].lastUpdated > 0) =>
        LET r == disk[1].repositories IN
            /\ disk[1].totalClones = SumOver([n \in DOMAIN r |-> r[n].totalClones], DOMAIN r)
            /\ disk[1].totalViews = SumOver([n \in DOMAIN r |-> r[n].totalViews], DOMAIN r)
            /\ disk[1].totalPRs = SumOver([n \in DOMAIN r |-> r[n].totalPRs], DOMAIN r)
            /\ disk[1].totalCommits = SumOver([n \in DOMAIN r |-> r[n].totalCommits], DOMAIN r)
            /\ disk[1].totalContributions = disk[1].totalCommits + (10 * disk[1].totalPRs)

\* A saved ledger of two entities with non-zero totals, one of them not
\* processed in the run that saved it, written over non-zero global totals.
C12_Witness ==
    /\ pc = "idle"
    /\ SavedV2
    /\ disk[1].lastUpdated = 2
    /\ disk[1].totalClones > 0
    /\ disk[1].totalPRs > 0
    /\ \E n \in DOMAIN disk[1].repositories, o \in DOMAIN disk[1].repositories :
          /\ n \in DOMAIN outcome /\ outcome[n] = "ok"
          /\ disk[1].repositories[n].totalClones > 0
          /\ o \notin DOMAIN outcome
          /\ disk[1].repositories[o].totalPRs > 0

\* C13: after every run, each entity's history has at most one record per
\* date and is in ascending date order.
C13_HistorySortedAndUnique ==
    SavedV2 =>
        \A n \in DOMAIN disk[1].repositories :
            LET h == disk[1].repositories[n].history IN
                \A j \in DOMAIN h, k \in DOMAIN h : j < k => h[j].date < h[k].date

\* A saved history of three days, whose last fetch gave clones for the later
\* day only and views for the earlier day only.
C13_Witness ==
    /\ pc = "idle"
    /\ SavedV2
    /\ \E n \in DOMAIN disk[1].repositories \cap DOMAIN fetched :
          /\ Len(disk[1].repositories[n].history) = 3
          /\ outcome[n] = "ok"
          /\ LET data == fetchTrafficData(fetched[n]) IN
                /\ Len(data.clonesByDay) = 1
                /\ Len(data.viewsByDay) = 1
                /\ data.viewsByDay[1].date < data.clonesByDay[1].date

C15_MigrationIsNoOpOnV2 ==
    [][/\ (pc = "load" /\ SavedV2) => hd' = disk[1]
       /\ SavedV2 => (disk' # <<>> /\ disk'[1].schemaVersion = SCHEMA_VERSION)]_vars

\* The migration step has just run over a v2 ledger holding an entity with a
\* non-zero legacyOffset and a non-empty history.
C15_Witness ==
    /\ pc = "loop"
    /\ idx = 1
    /\ SavedV2
    /\ \E n \in DOMAIN hd.repositories :
          /\ hd.repositories[n].legacyOffset.clones > 0
          /\ hd.repositories[n].history # <<>>
          /\ hd.repositories[n].totalClones > hd.repositories[n].legacyOffset.clones

\* The history the loop body started from.
OldHistory == IF before = <<>> THEN <<>> ELSE before[1].history

FetchedDates(byDay) == {byDay[j].date : j \in DOMAIN byDay}

\* C16: upserting a fetched clones tuple for a date that has a record sets
\* that record's clones and clonesUniques and leaves its views and
\* viewsUniques untouched (symmetrically for a views tuple); for a date with
\* no record, a record is inserted with the fetched metric and the other
\* metric's two fields zero.
C16_UpsertTouchesOnlyItsMetric ==
    (AfterLoopBody /\ outcome[Last] = "ok") =>
        /\ \A j \in DOMAIN LastData.clonesByDay :
            LET t == LastData.clonesByDay[j] IN
            \E k \in DOMAIN LastEntry.history :
                LET rec == LastEntry.history[k] IN
                /\ rec.date = t.date
                /\ rec.clones = t.count
                /\ rec.clonesUniques = t.uniques
                /\ t.date \notin FetchedDates(LastData.viewsByDay) =>
                      IF t.date \in Dates(OldHistory)
                      THEN \A i \in RecordsOf(OldHistory, t.date) :
                              /\ rec.views = OldHistory[i].views
                              /\ rec.viewsUniques = OldHistory[i].viewsUniques
                      ELSE rec.views = 0 /\ rec.viewsUniques = 0
        /\ \A j \in DOMAIN LastData.viewsByDay :
            LET t == LastData.viewsByDay[j] IN
            \E k \in DOMAIN LastEntry.history :
                LET rec == LastEntry.history[k] IN
                /\ rec.date = t.date
                /\ rec.views = t.count
                /\ rec.viewsUniques = t.uniques
                /\ t.date \notin FetchedDates(LastData.clonesByDay) =>
                      IF t.date \in Dates(OldHistory)
                      THEN \A i \in RecordsOf(OldHistory, t.date) :
                              /\ rec.clones = OldHistory[i].clones
                              /\ rec.clonesUniques = OldHistory[i].clonesUniques
                      ELSE rec.clones = 0 /\ rec.clonesUniques = 0

\* One fetch gave views only for a stored day that had clones, and clones
\* only for a day that had no record.
C16_Witness ==
    /\ AfterLoopBody
    /\ outcome[Last] = "ok"
    /\ \E j \in DOMAIN LastData.viewsByDay :
          /\ LastData.viewsByDay[j].date \notin FetchedDates(LastData.clonesByDay)
          /\ \E i \in RecordsOf(OldHistory, LastData.viewsByDay[j].date) :
                /\ OldHistory[i].clones > 0
                /\ OldHistory[i].views > 0
                /\ OldHistory[i].views # LastData.viewsByDay[j].count
    /\ \E j \in DOMAIN LastData.clonesByDay :
          /\ LastData.clonesByDay[j].date \notin FetchedDates(LastData.viewsByDay)
          /\ LastData.clonesByDay[j].date \notin Dates(OldHistory)

RECURSIVE SumCounts(_)
SumCounts(byDay) == IF byDay = <<>> THEN 0 ELSE Head(byDay).count + SumCounts(Tail(byDay))

\* C17: for an entity with no ledger entry, a successful first reconciliation
\* creates an entry with legacyOffset {clones: 0, views: 0} and a history of
\* exactly one record per distinct fetched date, ascending, with the fetched
\* counts, so totalClones is the sum of the fetched clone counts.
C17_FirstObservation ==
    (AfterLoopBody /\ outcome[Last] = "ok" /\ before = <<>>) =>
        LET h == LastEntry.history
            fetchedDates == FetchedDates(LastData.clonesByDay)
                            \cup FetchedDates(LastData.viewsByDay)
        IN  /\ LastEntry.legacyOffset = [clones |-> 0, views |-> 0]
            /\ Dates(h) = fetchedDates
            /\ Len(h) = Cardinality(fetchedDates)
            /\ \A j \in DOMAIN h, k \in DOMAIN h : j < k => h[j].date < h[k].date
            /\ \A k \in DOMAIN h :
                  /\ \A j \in DOMAIN LastData.clonesByDay :
                        LastData.clonesByDay[j].date = h[k].date =>
                            h[k].clones = LastData.clonesByDay[j].count
                  /\ h[k].date \notin FetchedDates(LastData.clonesByDay) => h[k].clones = 0
                  /\ \A j \in DOMAIN LastData.viewsByDay :
                        LastData.viewsByDay[j].date = h[k].date =>
                            h[k].views = LastData.viewsByDay[j].count
                  /\ h[k].date \notin FetchedDates(LastData.viewsByDay) => h[k].views = 0
            /\ LastEntry.totalClones = SumCounts(LastData.clonesByDay)
            /\ LastEntry.totalViews = SumCounts(LastData.viewsByDay)

\* A first fetch with 2 clones on one day and 3 on the next: two records,
\* totalClones 5.
C17_Witness ==
    /\ AfterLoopBody
    /\ outcome[Last] = "ok"
    /\ before = <<>>
    /\ Len(LastData.clonesByDay) = 2
    /\ LastData.clonesByDay[1].count = 2
    /\ LastData.clonesByDay[2].count = 3
    /\ Len(LastEntry.history) = 2
    /\ LastEntry.history[1].clones = 2
    /\ LastEntry.history[2].clones = 3
    /\ LastEntry.totalClones = 5

\* C18: after an entity is successfully reconciled, its totalPRs and
\* totalCommits are the values this run's fetch returned, whatever they were
\* before and whether or not the run migrated the ledger.
C18_CountersAreOverwritten ==
    (AfterLoopBody /\ outcome[Last] = "ok") =>
        /\ LastEntry.totalPRs = LastData.prs
        /\ LastEntry.totalCommits = LastData.commits

\* In a migrating run, an entry that stored 1 PR and 2 commits was reconciled
\* with a fetch that returned 3 PRs and 5 commits.
C18_Witness ==
    /\ AfterLoopBody
    /\ outcome[Last] = "ok"
    /\ NeedsMigration(loadHistoricalData(disk))
    /\ before # <<>>
    /\ before[1].totalPRs = 1
    /\ before[1].totalCommits = 2
    /\ LastData.prs = 3
    /\ LastData.commits = 5
    /\ LastEntry.totalPRs = 3
    /\ LastEntry.totalCommits = 5

Discovered == {REPOS[k] : k \in DOMAIN REPOS}

\* C19 as stated: no run removes an entity from the ledger, and an entity
\* that is not in the discovered set keeps its entry with every field
\* unchanged by the run.
C19_UndiscoveredEntryUnchanged ==
    [][(disk # <<>> /\ disk' # disk) =>
          \A n \in DOMAIN disk[1].repositories :
              /\ n \in DOMAIN disk'[1].repositories
              /\ n \notin Discovered =>
                    disk'[1].repositories[n] = disk[1].repositories[n]]_vars

\* C19, amended: no run removes an entity from the ledger; an entity that is
\* not in the discovered set keeps its entry unchanged in a run over a v2
\* ledger, while the run that migrates the ledger rewrites its legacyOffset
\* (to the prior totals) and its history (to empty) and leaves its totalPRs
\* and totalCommits unchanged.
C19_UndiscoveredEntryKept ==
    [][(disk # <<>> /\ disk' # disk) =>
          \A n \in DOMAIN disk[1].repositories :
              /\ n \in DOMAIN disk'[1].repositories
              /\ n \notin Discovered =>
                    LET old == disk[1].repositories[n]
                        new == disk'[1].repositories[n]
                    IN  IF disk[1].schemaVersion = SCHEMA_VERSION
                        THEN new = old
                        ELSE /\ new.legacyOffset = [clones |-> old.totalClones,
                                                    views |-> old.totalViews]
                             /\ new.history = <<>>
                             /\ new.totalPRs = old.totalPRs
                             /\ new.totalCommits = old.totalCommits]_vars

\* Two runs have saved the ledger; it holds an entity, with non-zero
\* counters, that neither run discovered.
C19_Witness ==
    /\ pc = "idle"
    /\ SavedV2
    /\ replay
    /\ disk[1].lastUpdated = 2
    /\ \E n \in DOMAIN disk[1].repositories :
          /\ n \notin Discovered
          /\ disk[1].repositories[n].totalPRs > 0
          /\ disk[1].repositories[n].legacyOffset.clones > 0

\* C20: a run that finds no credential or an empty discovery ends with a
\* non-zero exit code before the ledger is loaded, migrated or saved, so the
\* persisted ledger is unchanged; a run that passes both preconditions and
\* reaches the end exits with code 0.
C20_FatalPreconditions ==
    [][/\ (pc = "idle" /\ runs' # runs) =>
            /\ exitCode' # 0
            /\ disk' = disk
            /\ hd' = hd
            /\ pc' = "idle"
       /\ pc = "aggregate" => (runs' = runs + 1 /\ exitCode' = 0)]_vars

\* A run saved the ledger and exited 0; the next one aborted on a
\* precondition and left the saved ledger in place.
C20_Witness ==
    /\ pc = "idle"
    /\ runs = 2
    /\ exitCode # 0
    /\ SavedV2
    /\ disk[1].lastUpdated = 1
    /\ disk[1].repositories # Empty

\* The records of OldHistory that the retention step of this run keeps.
OldRetained == SelectSeq(OldHistory, LAMBDA e : e.date >= today - HISTORY_RETENTION_DAYS)

\* C21: a non-success response to an entity's clones (views) request is an
\* empty window for that metric: the loop body completes, and no record has
\* its clones (views) fields added, changed or removed because of it; when
\* both requests are refused the history is the stored one, less the records
\* the retention step ages out.
C21_NonSuccessIsEmptyWindow ==
    (AfterLoopBody /\ fetched[Last] # NetError) =>
        LET resp == fetched[Last]
            h == LastEntry.history
        IN  /\ ~Succeeded(resp.clones) =>
                /\ outcome[Last] = "ok"
                /\ Dates(h) = Dates(OldRetained) \cup FetchedDates(LastData.viewsByDay)
                /\ \A k \in DOMAIN h :
                      IF h[k].date \in Dates(OldHistory)
                      THEN \A i \in RecordsOf(OldHistory, h[k].date) :
                              /\ h[k].clones = OldHistory[i].clones
                              /\ h[k].clonesUniques = OldHistory[i].clonesUniques
                      ELSE h[k].clones = 0 /\ h[k].clonesUniques = 0
            /\ ~Succeeded(resp.views) =>
                /\ outcome[Last] = "ok"
                /\ Dates(h) = Dates(OldRetained) \cup FetchedDates(LastData.clonesByDay)
                /\ \A k \in DOMAIN h :
                      IF h[k].date \in Dates(OldHistory)
                      THEN \A i \in RecordsOf(OldHistory, h[k].date) :
                              /\ h[k].views = OldHistory[i].views
                              /\ h[k].viewsUniques = OldHistory[i].viewsUniques
                      ELSE h[k].views = 0 /\ h[k].viewsUniques = 0
            /\ (~Succeeded(resp.clones) /\ ~Succeeded(resp.views)) => h = OldRetained

\* The clones request was refused and the views request answered, over a
\* stored record of today that has clones.
C21_Witness ==
    /\ AfterLoopBody
    /\ fetched[Last] # NetError
    /\ ~Succeeded(fetched[Last].clones)
    /\ Succeeded(fetched[Last].views)
    /\ \E i \in DOMAIN OldHistory :
          /\ OldHistory[i].date = today
          /\ OldHistory[i].clones > 0
          /\ \E k \in DOMAIN LastEntry.history :
                /\ LastEntry.history[k].date = today
                /\ LastEntry.history[k].clones = OldHistory[i].clones
                /\ LastEntry.history[k].views # OldHistory[i].views

\* C22: every error arising from one entity's fetch or processing, a
\* malformed response body included, is caught at the entity-processing
\* boundary: a process ends with a non-zero exit code only on the missing
\* credential or the empty discovery, before the loop is entered.
C22_OnlyPreconditionsFailRun ==
    [][(runs' # runs /\ exitCode' # 0) => (pc = "idle" /\ outcome' = outcome)]_vars

\* C23: every run eventually finishes: once the loop is entered, after
\* finitely many steps every discovered entity has been visited and the
\* ledger saved, the process ending with exit code 0.
C23_EveryRunFinishes ==
    (pc = "loop") ~> (pc = "idle" /\ exitCode = 0 /\ disk # <<>>)

\* What the loop body leaves of document h after repository repo got
\* response resp.
LoopBodyOn(h, repo, resp, cut) ==
    IF resp = NetError THEN h
    ELSE LET entry == IF repo \in DOMAIN h.repositories
                      THEN h.repositories[repo] ELSE NewRepo
             repoData == EnsureLegacyOffset(entry)
         IN  [h EXCEPT !.repositories =
                 Put(@, repo, IF Has(repoData, "history")
                              THEN Reconcile(repoData, fetchTrafficData(resp), cut)
                              ELSE repoData)]

RECURSIVE RunOver(_, _, _, _)
RunOver(h, repos, responses, cut) ==
    IF repos = <<>> THEN h
    ELSE RunOver(LoopBodyOn(h, Head(repos), responses[Head(repos)], cut),
                 Tail(repos), responses, cut)

\* The file a complete run writes, from the file it found, the day, the
\* discovered repositories and their responses.
CompleteRun(file, t, repos, responses, stamp) ==
    saveHistoricalData(
        Aggregate(RunOver(Migrate(loadHistoricalData(file)), repos, responses,
                          RetentionCutoff(t)),
                  stamp))

\* C24: the ledger file is written once per run, at the end, after every
\* discovered entity was handled and the global totals recomputed; a process
\* that ends earlier leaves the file as it was; and what a complete run
\* writes is determined by the file it found and its own fetches, whatever
\* an interrupted run did before it.
C24_SavedOnceAtEnd ==
    [][/\ pc # "aggregate" => disk' = disk
       /\ pc = "aggregate" =>
            /\ idx = Len(REPOS) + 1
            /\ disk' # disk
            /\ disk' = CompleteRun(disk, today, REPOS, fetched, runs + 1)]_vars

\* A complete run saved the ledger; the next one reconciled the first entity
\* with another count and died on the second: the file is the first run's.
C24_Witness ==
    /\ pc = "idle"
    /\ exitCode = 1
    /\ runs = 2
    /\ SavedV2
    /\ disk[1].lastUpdated = 1
    /\ Len(REPOS) = 2
    /\ outcome[REPOS[1]] = "ok"
    /\ outcome[REPOS[2]] = "crash"
    /\ REPOS[1] \in DOMAIN disk[1].repositories
    /\ LET data == fetchTrafficData(fetched[REPOS[1]])
           h == disk[1].repositories[REPOS[1]].history
       IN  /\ Len(data.clonesByDay) = 1
           /\ Len(h) = 1
           /\ h[1].date = data.clonesByDay[1].date
           /\ h[1].clones # data.clonesByDay[1].count

\* C25: entities are processed strictly one at a time: requests for two
\* different entities are never in flight at once, and the pause is taken
\* after a failed entity as well as after a successful one.
C25_OneEntityAtATime ==
    [][/\ \A r1 \in inflight', r2 \in inflight' : r1.repo = r2.repo
       /\ (pc = "await" /\ pc' # "await") => pc' = "pause"
       /\ (pc # "await" /\ pc' = "await") => (idx = 1 \/ pc = "loop")]_vars

\* The answer to endpoint e among the answers that have arrived, if any.
AnswerTo(e) == {arrived[k].resp : k \in {j \in DOMAIN arrived : arrived[j].endpoint = e}}

\* The current entity's ledger entry: <<entry>>, or <<>> when it has none.
EntryOf(h, n) == IF n \in DOMAIN h.repositories THEN <<h.repositories[n]>> ELSE <<>>

\* C26: the four requests of an entity are issued together; the ledger is not
\* mutated until all four are answered; the reconciled entry is determined
\* by the four answers, whatever the order they arrived in; and if one of the
\* requests rejects no reconciliation step is applied for the entity.
C26_JointAwait ==
    [][/\ (pc = "loop" /\ pc' = "await") =>
            /\ \A e \in Endpoints : Request(REPOS[idx], e) \in inflight'
            /\ hd' = hd
       /\ hd' # hd /\ pc = "await" =>
            /\ \A e \in Endpoints :
                  /\ Request(REPOS[idx], e) \notin inflight
                  /\ Cardinality(AnswerTo(e)) = 1
            /\ \E c \in AnswerTo("clones"), v \in AnswerTo("views"),
                  p \in AnswerTo("prs"), k \in AnswerTo("contributors") :
                  hd' = LoopBodyOn(hd, REPOS[idx],
                                   [net |-> "ok", clones |-> c, views |-> v, prs |-> p,
                                    contributors |-> k],
                                   cutoff)
       /\ (pc = "await" /\ Len(arrived) < Cardinality(Endpoints)) => hd' = hd
       /\ (pc = "await" /\ pc' = "pause" /\ fetched'[REPOS[idx]] = NetError) =>
            /\ hd' = hd
            /\ outcome'[REPOS[idx]] = "error"]_vars

\* The loop body has run over a stored entry after the contributors answer
\* had arrived first and the views answer before the clones answer, the two
\* carrying different counts.
C26_Witness ==
    /\ pc = "pause"
    /\ Len(arrived) = 4
    /\ arrived[1].endpoint = "contributors"
    /\ arrived[2].endpoint = "views"
    /\ arrived[3].endpoint = "clones"
    /\ outcome[REPOS[idx]] = "ok"
    /\ before # <<>>
    /\ before[1].legacyOffset.clones > 0
    /\ fetched[REPOS[idx]].net = "ok"
    /\ Succeeded(fetched[REPOS[idx]].clones)
    /\ Succeeded(fetched[REPOS[idx]].views)
    /\ fetched[REPOS[idx]].clones.body[1].count # fetched[REPOS[idx]].views.body[1].count
    /\ hd.repositories[REPOS[idx]].history[1].clones = fetched[REPOS[idx]].clones.body[1].count
    /\ hd.repositories[REPOS[idx]].history[1].views = fetched[REPOS[idx]].views.body[1].count

\* Values a stored total can have been left at.
StoredTotals == {0, 1, 100}

\* C27: after an entity is reconciled its state does not depend on the
\* totalClones / totalViews it had stored: an entry that differs from the
\* stored one only in those two fields is reconciled, with the same fetch
\* result, to the same entry, whose totals are legacyOffset plus history.
C27_StoredTotalsDoNotMatter ==
    (AfterLoopBody /\ outcome[Last] = "ok" /\ before # <<>>) =>
        /\ \A c \in StoredTotals, v \in StoredTotals :
              Reconcile(Put(Put(EnsureLegacyOffset(before[1]), "totalClones", c),
                            "totalViews", v),
                        LastData, cutoff) = LastEntry
        /\ LastEntry.totalClones =
              LastEntry.legacyOffset.clones + SumClones(LastEntry.history)
        /\ LastEntry.totalViews =
              LastEntry.legacyOffset.views + SumViews(LastEntry.history)

\* An entry whose stored totalClones was not its legacyOffset plus history
\* has been reconciled.
C27_Witness ==
    /\ AfterLoopBody
    /\ outcome[Last] = "ok"
    /\ before # <<>>
    /\ Has(before[1], "legacyOffset")
    /\ before[1].totalClones # before[1].legacyOffset.clones + SumClones(before[1].history)
    /\ LastEntry.totalClones > 0

\* C28: when no ledger file exists, load gives a zero-valued document with
\* no entities, raises nothing, and the run goes on to the loop; every ledger
\* the v2 collector saves carries schemaVersion 2.
C28_AbsentFileAndStamp ==
    [][/\ (pc = "load" /\ disk = <<>>) =>
            /\ pc' = "loop"
            /\ hd'.repositories = Empty
            /\ hd'.totalClones = 0 /\ hd'.totalViews = 0
            /\ hd'.totalPRs = 0 /\ hd'.totalCommits = 0
            /\ hd'.totalContributions = 0
            /\ hd'.lastUpdated = 0
       /\ disk' # disk => disk'[1].schemaVersion = SCHEMA_VERSION]_vars

\* A run that found no file has saved a ledger with one reconciled entity.
C28_Witness ==
    /\ pc = "idle"
    /\ runs = 1
    /\ exitCode = 0
    /\ before = <<>>
    /\ disk # <<>>
    /\ disk[1].schemaVersion = SCHEMA_VERSION
    /\ DOMAIN disk[1].repositories = {"a"}
    /\ disk[1].repositories["a"].totalClones > 0

\* C29: a stored record whose date is not in the fetched window and is not
\* older than the cutoff is left as it is by reconciliation, neither zeroed
\* nor removed, also when the fetch returns an empty window for one or both
\* metrics.
C29_UnfetchedRecordKept ==
    (AfterLoopBody /\ outcome[Last] = "ok") =>
        \A i \in DOMAIN OldHistory :
            (/\ OldHistory[i].date >= cutoff
             /\ OldHistory[i].date \notin FetchedDates(LastData.clonesByDay)
             /\ OldHistory[i].date \notin FetchedDates(LastData.viewsByDay)) =>
                \E k \in DOMAIN LastEntry.history : LastEntry.history[k] = OldHistory[i]

\* A stored record with clones and views, dated on the cutoff, went through
\* a reconciliation whose two windows were empty.
C29_Witness ==
    /\ AfterLoopBody
    /\ outcome[Last] = "ok"
    /\ LastData.clonesByDay = <<>>
    /\ LastData.viewsByDay = <<>>
    /\ \E i \in DOMAIN OldHistory :
          /\ OldHistory[i].date = cutoff
          /\ OldHistory[i].clones > 0
          /\ OldHistory[i].views > 0
          /\ \E k \in DOMAIN LastEntry.history : LastEntry.history[k] = OldHistory[i]

\* The dates this run's fetch delivered for repository n.
DeliveredDates(n) ==
    IF n \in DOMAIN fetched /\ fetched[n] # NetError
    THEN FetchedDates(fetchTrafficData(fetched[n]).clonesByDay)
         \cup FetchedDates(fetchTrafficData(fetched[n]).viewsByDay)
    ELSE {}

\* C30: migration runs before any entity is reconciled in the invocation and
\* leaves every history empty, so after a migrating run each entity's history
\* holds only dates delivered by that run's fetches: no record stored under
\* the old schema survives.
C30_OldHistoryDoesNotSurvive ==
    [][/\ (pc = "load" /\ NeedsMigration(loadHistoricalData(disk))) =>
            /\ outcome = Empty
            /\ \A n \in DOMAIN hd'.repositories : hd'.repositories[n].history = <<>>
       /\ (pc = "aggregate" /\ NeedsMigration(loadHistoricalData(disk))) =>
            \A n \in DOMAIN disk'[1].repositories :
                Dates(disk'[1].repositories[n].history) \subseteq DeliveredDates(n)]_vars

\* A migrating run has saved a ledger: the entity it reconciled has one
\* record, of today, over a baseline taken from the old totals, and the
\* entity it did not reconcile has an empty history.
C30_Witness ==
    /\ pc = "idle"
    /\ runs = 1
    /\ exitCode = 0
    /\ SavedV2
    /\ \E n \in DOMAIN disk[1].repositories, o \in DOMAIN disk[1].repositories :
          /\ n \in DOMAIN outcome /\ outcome[n] = "ok"
          /\ disk[1].repositories[n].legacyOffset.clones > 0
          /\ Dates(disk[1].repositories[n].history) = {today}
          /\ o \notin DOMAIN outcome
          /\ disk[1].repositories[o].legacyOffset.clones > 0
          /\ disk[1].repositories[o].history = <<>>

\* The repositories the collector does not track.
Untracked == {PORTFOLIO_REPO} \cup EXCLUDED_REPOS

\* The ledger entry of n in document h: <<entry>>, or <<>> when it has none.
EntryIn(h, n) == IF n \in DOMAIN h.repositories THEN <<h.repositories[n]>> ELSE <<>>

\* The answer carried names: a 200 with a non-empty array.
CarriedNames(a) == a.response # NetError /\ a.response.ok /\ Len(a.response.names) > 0

\* C31: discovery requests pages 1, 2, 3, ... in increasing order and stops
\* at the first page that is empty or fails; the discovered list never holds
\* the portfolio repository or a name on the exclusion list, so no such
\* repository is fetched, and no step creates or changes its ledger entry.
C31_DiscoveryExcludes ==
    /\ [](/\ \A k \in DOMAIN asked :
                /\ asked[k].page = k
                /\ k < Len(asked) => CarriedNames(asked[k])
          /\ (pc # "discover" /\ Len(asked) > 0) => ~CarriedNames(asked[Len(asked)])
          /\ pc = "discover" => page = Len(asked) + 1
          /\ \A n \in Untracked :
                /\ n \notin Discovered
                /\ n \notin DOMAIN fetched
                /\ n \notin DOMAIN outcome)
    /\ [][\A n \in Untracked : EntryIn(Doc', n) = EntryIn(Doc, n)]_vars

\* A run over an account of two pages that list the portfolio repository and
\* an excluded one has saved: three pages were asked, the two tracked
\* repositories were reconciled, the excluded one keeps its old entry.
C31_Witness ==
    /\ pc = "idle" /\ runs = 1 /\ exitCode = 0 /\ disk # <<>>
    /\ \E k \in DOMAIN env.listing : env.listing[k] = PORTFOLIO_REPO
    /\ \E k \in DOMAIN env.listing : env.listing[k] \in EXCLUDED_REPOS
    /\ Len(asked) > 2
    /\ REPOS = <<"a", "b">>
    /\ DOMAIN outcome = {"a", "b"}
    /\ EXCLUDED_REPOS \subseteq DOMAIN disk[1].repositories
    /\ "b" \in DOMAIN disk[1].repositories

\* No two entries of the history carry the same date.
UniqueDates(history) ==
    \A j, k \in DOMAIN history : history[j].date = history[k].date => j = k

\* Every history in the ledger file and in the in-memory document.
HistoriesV1 ==
    {hd.repositories[n].history : n \in DOMAIN hd.repositories}
    \cup (IF disk = <<>> THEN {}
          ELSE {disk[1].repositories[n].history : n \in DOMAIN disk[1].repositories})

\* The step is the earlier collector's save.
SavesV1 == pc = "aggregate" /\ disk' # disk


\* C32 as stated: in the earlier collector a repository's history holds at
\* most one entry per calendar date, and a run on the date of the previous
\* completed run changes no repository's history entries or totals.
C32_SecondRunChangesNothing ==
    /\ [](\A history \in HistoriesV1 : UniqueDates(history))
    /\ [][(SavesV1 /\ disk # <<>> /\ disk[1].lastUpdated[1] = today) =>
            \A k \in DOMAIN REPOS : EntryIn(disk'[1], REPOS[k]) = EntryIn(disk[1], REPOS[k])]_vars

\* C32, amended: in the earlier collector a repository's history holds at
\* most one entry per calendar date, and a run changes neither the history
\* entries nor the totals of a repository whose history already holds an
\* entry for the run's date.
C32_RecordedDayIsKept ==
    /\ [](\A history \in HistoriesV1 : UniqueDates(history))
    /\ [][(SavesV1 /\ disk # <<>>) =>
            \A n \in DOMAIN disk[1].repositories :
                TodayEntry(disk[1].repositories[n].history, today) # {} =>
                    disk'[1].repositories[n] = disk[1].repositories[n]]_vars

\* The second run of a day has saved: the repository was recorded by the
\* first one, the second one fetched another count, and the day's entry is
\* the first run's.
C32_Witness ==
    /\ pc = "idle" /\ runs = 2 /\ disk # <<>>
    /\ disk[1].lastUpdated = <<today, 2>>
    /\ "a" \in DOMAIN fetched /\ fetched["a"] # NetError
    /\ LET history == disk[1].repositories["a"].history
           data == fetchTrafficDataV1(fetched["a"])
       IN  /\ Len(history) > 0
           /\ history[Len(history)].date = today
           /\ history[Len(history)].clones # data.clones.count
           /\ data.clones.count > history[Len(history)].clones

\* The step is the earlier collector's loop body on REPOS[idx], its fetch
\* resolved.
CollectsV1 == pc = "loop" /\ idx' = idx + 1 /\ fetched'[REPOS[idx]] # NetError

\* The entry the loop body starts from.
EntryV1(h, n) == IF n \in DOMAIN h.repositories THEN h.repositories[n] ELSE NewRepoV1

\* C33: in the earlier collector a repository's totalClones and totalViews
\* never decrease, in the file from one run to the next and in memory from
\* one step of a run to the next; when the fetched window count is lower
\* than the count of the previous history entry, the loop body adds 0 to the
\* repository's total and to the run's increment.
C33_DeltaIsNeverNegative ==
    [][/\ (disk # <<>> /\ disk' # <<>>) =>
            \A n \in DOMAIN disk[1].repositories :
                /\ n \in DOMAIN disk'[1].repositories
                /\ disk'[1].repositories[n].totalClones >= disk[1].repositories[n].totalClones
                /\ disk'[1].repositories[n].totalViews >= disk[1].repositories[n].totalViews
       /\ CollectsV1 =>
            LET repo == REPOS[idx]
                old == EntryV1(hd, repo)
                new == hd'.repositories[repo]
                data == fetchTrafficDataV1(fetched'[repo])
                lower(count, field) ==
                    /\ Len(old.history) > 0
                    /\ TodayEntry(old.history, today) = {}
                    /\ count < old.history[Len(old.history)][field]
            IN  /\ new.totalClones >= old.totalClones
                /\ new.totalViews >= old.totalViews
                /\ totalClonesIncrement' >= totalClonesIncrement
                /\ totalViewsIncrement' >= totalViewsIncrement
                /\ lower(data.clones.count, "clones") =>
                        /\ new.totalClones = old.totalClones
                        /\ totalClonesIncrement' = totalClonesIncrement
                /\ lower(data.views.count, "views") =>
                        /\ new.totalViews = old.totalViews
                        /\ totalViewsIncrement' = totalViewsIncrement]_vars

\* The loop body has recorded a day whose window count of clones is positive
\* and lower than the previous entry's, and the total is what it was.
C33_Witness ==
    /\ pc \in {"loop", "aggregate"} /\ idx > 1
    /\ Last \in DOMAIN fetched /\ fetched[Last] # NetError
    /\ before # <<>>
    /\ LET old == before[1]
           new == hd.repositories[Last]
           data == fetchTrafficDataV1(fetched[Last])
       IN  /\ Len(old.history) > 0
           /\ Len(new.history) > 1
           /\ new.history[Len(new.history)].date = today
           /\ TodayEntry(old.history, today) = {}
           /\ data.clones.count > 0
           /\ data.clones.count < old.history[Len(old.history)].clones
           /\ old.totalClones > 0
           /\ new.totalClones = old.totalClones

\* The fold of a per-repository total over the repositories of document h.
FoldTotal(h, field) ==
    SumOver([n \in DOMAIN h.repositories |-> h.repositories[n][field]],
            DOMAIN h.repositories)

\* C34: in the earlier collector, starting from an empty ledger, every saved
\* file's global totalClones and totalViews equal the sums of the
\* repositories' totalClones and totalViews; during a run the loaded global
\* totals plus the run's increments equal those sums.
C34_IncrementsAgreeWithFold ==
    /\ disk # <<>> =>
        /\ disk[1].totalClones = FoldTotal(disk[1], "totalClones")
        /\ disk[1].totalViews = FoldTotal(disk[1], "totalViews")
    /\ pc \in {"loop", "aggregate"} =>
        /\ hd.totalClones + totalClonesIncrement = FoldTotal(hd, "totalClones")
        /\ hd.totalViews + totalViewsIncrement = FoldTotal(hd, "totalViews")

\* The second run has saved: both repositories have positive totals, the
\* run added a positive increment to what the first run had accumulated.
C34_Witness ==
    /\ pc = "idle" /\ runs = 2 /\ disk # <<>>
    /\ disk[1].lastUpdated[2] = 2
    /\ DOMAIN disk[1].repositories = Entities
    /\ \A n \in Entities : disk[1].repositories[n].totalClones > 0
    /\ totalClonesIncrement > 0
    /\ totalViewsIncrement > 0
    /\ disk[1].totalClones > totalClonesIncrement
    /\ disk[1].totalViews > totalViewsIncrement

\* C35: on the portfolio page, once initializeGitHubInsights has run to its
\* end no card holds a loading indicator, whether or not the repository's data
\* or the historical data file could be obtained.
C35_LoadersAreRemoved == ui = "done" => loader = {}

\* The filter clicked last.
LastClicked == clicks[Len(clicks)]

\* C36: after any non-empty sequence of clicks on filter buttons exactly one
\* filter button carries the class 'active', the one clicked last, and a
\* project card is displayed when the selected filter is 'all' or the card's
\* category, and hidden otherwise.
C36_FilterSelection ==
    Len(clicks) > 0 =>
        /\ active = {LastClicked}
        /\ Cardinality(active) = 1
        /\ \A c \in Cards :
            /\ (LastClicked = "all" \/ ProjectCards[c].category = LastClicked)
                    => display[c] = "flex"
            /\ (LastClicked # "all" /\ ProjectCards[c].category # LastClicked)
                    => display[c] = "none"

\* Two clicks, 'all' then 'ai', and the cards populated: only 'ai' is active,
\* the tools cards and the enterprise card are hidden.
C36_Witness ==
    /\ clicks = <<"all", "ai">>
    /\ active = {"ai"}
    /\ display[1] = "flex"
    /\ display[2] = "none"
    /\ display[5] = "none"
    /\ ui = "done"

\* The figure the card shows for a metric: <<count>>, or <<>> for none.
FigureShown(c, metric) == IF rendered[c] = <<>> THEN <<>> ELSE rendered[c][1][metric]

\* The figure of the fallback order API, historical data, none.
FigureExpected(c, metric, field) ==
    LET repoName == extractRepoName(ProjectCards[c].href)[1] IN
    IF Succeeded(answers[c][metric]) THEN <<answers[c][metric].count>>
    ELSE IF /\ historicalTrafficData # <<>>
            /\ repoName \in DOMAIN historicalTrafficData[1].repositories
            /\ historicalTrafficData[1].repositories[repoName][field] # 0
         THEN <<historicalTrafficData[1].repositories[repoName][field]>>
         ELSE <<>>

\* C37: in the API-backed script the clone (view) figure a repository card
\* shows is the live API value when that call succeeded, otherwise the
\* repository's all-time total of the historical ledger when there is one
\* and it is not zero, otherwise none.
C37_FallbackOrder ==
    \A c \in DOMAIN answers :
        /\ FigureShown(c, "clones") = FigureExpected(c, "clones", "totalClones")
        /\ FigureShown(c, "views") = FigureExpected(c, "views", "totalViews")

====
